---------------------------- MODULE Spec2Model ----------------------------
(***************************************************************************)
(* A model of the DeltaSim-Pro slicing core (utils/slicer.ts): binary STL  *)
(* decoding, plane/triangle intersection, contour stitching and the layer  *)
(* loop / G-code emission of sliceMesh; of the G-code reader               *)
(* (utils/gcodeParser.ts); and of the playback timer of App.tsx.           *)
(*                                                                         *)
(* Numbers.  The program computes in IEEE doubles.  Lengths are modelled   *)
(* in fixed point, one unit = 0.001 mm (so 0.05 mm = 50, 0.2 mm = 200);    *)
(* a quotient is rounded to the nearest unit where the double would be     *)
(* rounded to the nearest representable value.  +Infinity and -Infinity    *)
(* are the two values PosInf and NegInf, absorbing under addition, and NaN  *)
(* is a value of its own.  Filament is kept in 0.0000001 mm so that the    *)
(* rounding of toFixed(5) is a real rounding.                              *)
(*                                                                         *)
(* Each component has its own specification over its own variables; the    *)
(* variables of the other components stay at their idle values.            *)
(***************************************************************************)
EXTENDS Integers, Sequences, FiniteSets, TLC

VARIABLES
    \* parseSTL
    stlBuf,        \* the ArrayBuffer: [len, count, seed]
    stlPc,         \* "call" | "returned" | "threw"
    stlTriangles,  \* the returned Triangle[]
    \* intersectTriangleZ
    ixTri, ixZ, ixPc, ixResult,
    \* chainSegments
    chSegments,    \* the argument segments
    chPool,        \* pool
    chLoop,        \* loop: the chain of the last iteration of the outer while
    chLoops,       \* loops
    chBuilt,       \* every loop the outer while has built, pushed to loops or not
    chPc,          \* "chaining" | "growing" | "returned"
    \* sliceMesh
    slMesh,        \* rawTriangles
    slTransform,   \* ModelTransform
    slSettings,    \* SlicerSettings
    slPc,          \* "start" | "slicing" | "emit" | "done"
    slTriangles,   \* triangles (transformed)
    slMinZ, slMaxZ,
    slZ,           \* the loop variable z of the layer loop
    slLayers,      \* layers: Layer -> Loops -> Points
    slLines,       \* gcodeLines
    slVisualPath,  \* visualPath
    slTotalFilament, slTotalTime,
    slCurrentPos,
    slLayerIdx,    \* index of the next layer of layers.forEach (0-based)
    slEmitPc,      \* where the layers.forEach callback stands: "layer" | "loop" | "point"
    slLoopIdx,     \* index of the next loop of loops.forEach (0-based)
    slPointIdx,    \* i of for (let i = 1; i < loop.length; i++)
    slPrev,        \* the value returned by the call before this one, if any
    \* parseGCodeFile
    gcLines,       \* lines, each split into its command word and its parameters
    gcIdx,         \* the number of lines the for loop has taken
    gcPoints,      \* points
    gcCurrentPos,  \* currentPos: x, y, z, e
    gcCurrentFeedrate,
    gcTotalTime, gcTotalFilament,
    gcIsRelative, gcIsExtruderRelative,
    gcMin, gcMax,  \* min, max of the bounding box
    gcPc,          \* "parsing" | "returned"
    \* App: playback
    simPath,       \* undefined, or the number of points of simPath.original
    isPlaying, playbackIndex, playbackSpeed

stlVars == <<stlBuf, stlPc, stlTriangles>>
ixVars  == <<ixTri, ixZ, ixPc, ixResult>>
chVars  == <<chSegments, chPool, chLoop, chLoops, chBuilt, chPc>>
slVars  == <<slMesh, slTransform, slSettings, slPc, slTriangles, slMinZ, slMaxZ,
             slZ, slLayers, slLines, slVisualPath, slTotalFilament, slTotalTime,
             slCurrentPos, slLayerIdx, slEmitPc, slLoopIdx, slPointIdx, slPrev>>
gcVars  == <<gcLines, gcIdx, gcPoints, gcCurrentPos, gcCurrentFeedrate, gcTotalTime,
             gcTotalFilament, gcIsRelative, gcIsExtruderRelative, gcMin, gcMax, gcPc>>
appVars == <<simPath, isPlaying, playbackIndex, playbackSpeed>>
vars    == <<stlVars, ixVars, chVars, slVars, gcVars, appVars>>

-----------------------------------------------------------------------------
(* Generic helpers *)

Min2(a, b) == IF a <= b THEN a ELSE b
Max2(a, b) == IF a >= b THEN a ELSE b
\* variant: the sign kept
AbsDropped(a) == a
Abs(a) == IF a < 0 THEN -a ELSE a

Pt(x, y, z) == [x |-> x, y |-> y, z |-> z]

-----------------------------------------------------------------------------
(* parseSTL *)

\* Bounds of the model's input buffers.
MaxSmallCount == 3

\* Browser safety limit
TriangleLimit == 25000
HeaderSize == 84
CountOffset == 80
RecordSize == 50

\* The little-endian float32 stored at byte offset off of the buffer.  The
\* buffers of the model hold a different value at every offset (seed + off),
\* so that the place a value was read from can be told from the value.
GetFloat32(buf, off) == buf.seed + off

\* DataView's bounds check: a read of size bytes at off lies in the buffer.
InBounds(buf, off, size) == off + size <= buf.len

\* One 50-byte record read at offset: normal, p1, p2, p3 (12 floats); the two
\* trailing bytes are not read.
ReadTriangle(buf, offset) ==
    [ normal |-> Pt(GetFloat32(buf, offset), GetFloat32(buf, offset + 4),
                    GetFloat32(buf, offset + 8)),
      p1 |-> Pt(GetFloat32(buf, offset + 12), GetFloat32(buf, offset + 16),
                GetFloat32(buf, offset + 20)),
      p2 |-> Pt(GetFloat32(buf, offset + 24), GetFloat32(buf, offset + 28),
                GetFloat32(buf, offset + 32)),
      p3 |-> Pt(GetFloat32(buf, offset + 36), GetFloat32(buf, offset + 40),
                GetFloat32(buf, offset + 44)) ]

\* The last byte read of a record at offset is that of getFloat32(offset + 44).
RecordReadable(buf, offset) == InBounds(buf, offset + 44, 4)

StlLimit(triangleCount) == Min2(triangleCount, TriangleLimit)

\* variant: records taken as 48 bytes, the attribute bytes not skipped
StlStrideShort(i) == HeaderSize + (RecordSize - 2) * i
\* offset after i iterations of the loop: 84, then += 50 each time
StlOffset(i) == HeaderSize + RecordSize * i

\* The whole call.  getUint32(80) and every getFloat32 throw a RangeError when
\* they reach past the end of the buffer; the reads go up in offset, so the
\* call returns iff the header and the last record read are in bounds.
ParseSTLThrows(buf) ==
    \/ ~InBounds(buf, CountOffset, 4)
    \/ /\ StlLimit(buf.count) > 0
       /\ ~RecordReadable(buf, StlOffset(StlLimit(buf.count) - 1))

ParseSTLResult(buf) ==
    [i \in 1..StlLimit(buf.count) |-> ReadTriangle(buf, StlOffset(i - 1))]

StlCounts == (0..MaxSmallCount) \cup {TriangleLimit - 1, TriangleLimit,
                                      TriangleLimit + 1, 30000}
\* Buffer lengths: too short for the header, the bare header, and, for n
\* records, whole, without the two trailing bytes, one byte shorter than that,
\* and without a record (the large buffers: whole, and without three bytes).
StlLens == {CountOffset + 3, HeaderSize} \cup
           { HeaderSize + RecordSize * n - d :
                n \in 1..MaxSmallCount, d \in {0, 2, 3, RecordSize} } \cup
           { HeaderSize + RecordSize * n - d : n \in {TriangleLimit, 30000}, d \in {0, 3} }
StlSeeds == {0}
StlBuffers == [len : StlLens, count : StlCounts, seed : StlSeeds]

\* parseSTL(buffer): returns the triangles, or ends in the RangeError of the
\* DataView read that left the buffer (the function catches nothing).
ParseSTL ==
    /\ stlPc = "call"
    /\ IF ParseSTLThrows(stlBuf)
         THEN /\ stlPc' = "threw"
              /\ stlTriangles' = <<>>
         ELSE /\ stlPc' = "returned"
              /\ stlTriangles' = ParseSTLResult(stlBuf)
    /\ UNCHANGED <<stlBuf, ixVars, chVars, slVars, gcVars, appVars>>

-----------------------------------------------------------------------------
(* intersectTriangleZ *)

\* n / d rounded to the nearest unit (d # 0).
RoundDiv(n, d) == IF d < 0 THEN (2 * (-n) + (-d)) \div (2 * (-d))
                           ELSE (2 * n + d) \div (2 * d)

NoSegment == [none |-> TRUE]

\* Infinity and -Infinity
PosInf == 1000000000
NegInf == -1000000000
\* NaN
NaN == 2000000000

IsFinite(v) == v # PosInf /\ v # NegInf /\ v # NaN

\* a + (num / den) * (b - a) in the doubles.  With den = 0 the quotient is NaN
\* for num = 0 and an infinity otherwise; NaN, and an infinity times 0, give NaN.
Interpolate(a, b, num, den) ==
    IF den # 0 THEN a + RoundDiv(num * (b - a), den)
    ELSE IF num = 0 \/ b = a THEN NaN
    ELSE IF (num > 0) = (b > a) THEN PosInf ELSE NegInf

\* variant: the interpolation started from p2 instead of p1
IntersectEdgeFromP2(p1, p2, z) ==
    [ x |-> Interpolate(p1.x, p2.x, z - p2.z, p2.z - p1.z),
      y |-> Interpolate(p1.y, p2.y, z - p2.z, p2.z - p1.z),
      z |-> z ]
\* t = (z - p1.z) / (p2.z - p1.z); x and y interpolated, z set to the plane
IntersectEdge(p1, p2, z) ==
    [ x |-> Interpolate(p1.x, p2.x, z - p1.z, p2.z - p1.z),
      y |-> Interpolate(p1.y, p2.y, z - p1.z, p2.z - p1.z),
      z |-> z ]

\* variant: a vertex on the plane counted as below
IsAboveStrict(p, z) == p.z > z
\* Classify points relative to Z plane: p.z >= z is above
IsAbove(p, z) == p.z >= z

TrianglePoints(tri) == <<tri.p1, tri.p2, tri.p3>>

\* variant: with two vertices above, the first cut taken on the edge between them
IntersectTriangleZAlongAbove(tri, z) ==
    LET points == TrianglePoints(tri)
        above == SelectSeq(points, LAMBDA p : IsAbove(p, z))
        below == SelectSeq(points, LAMBDA p : ~IsAbove(p, z))
    IN  IF Len(above) = 3 \/ Len(below) = 3 THEN NoSegment
        ELSE IF Len(above) = 1 /\ Len(below) = 2
          THEN [ start |-> IntersectEdge(above[1], below[1], z),
                 end   |-> IntersectEdge(above[1], below[2], z) ]
        ELSE IF Len(above) = 2 /\ Len(below) = 1
          THEN [ start |-> IntersectEdge(above[1], above[2], z),
                 end   |-> IntersectEdge(below[1], above[2], z) ]
        ELSE NoSegment
\* variant: with two vertices above, the first call joins those two
IntersectEdgeCallsAlongAbove(tri, z) ==
    LET points == TrianglePoints(tri)
        above == SelectSeq(points, LAMBDA p : IsAbove(p, z))
        below == SelectSeq(points, LAMBDA p : ~IsAbove(p, z))
    IN  IF Len(above) = 3 \/ Len(below) = 3 THEN <<>>
        ELSE IF Len(above) = 1 /\ Len(below) = 2
          THEN << <<above[1], below[1]>>, <<above[1], below[2]>> >>
        ELSE IF Len(above) = 2 /\ Len(below) = 1
          THEN << <<above[1], above[2]>>, <<below[1], above[2]>> >>
        ELSE <<>>
\* the arguments <<p1, p2>> of the calls of intersectEdge that
\* intersectTriangleZ(tri, z) makes, the one for start first; none where it
\* returns null
IntersectEdgeCalls(tri, z) ==
    LET points == TrianglePoints(tri)
        above == SelectSeq(points, LAMBDA p : IsAbove(p, z))
        below == SelectSeq(points, LAMBDA p : ~IsAbove(p, z))
    IN  IF Len(above) = 3 \/ Len(below) = 3 THEN <<>>
        ELSE IF Len(above) = 1 /\ Len(below) = 2
          THEN << <<above[1], below[1]>>, <<above[1], below[2]>> >>
        ELSE IF Len(above) = 2 /\ Len(below) = 1
          THEN << <<below[1], above[1]>>, <<below[1], above[2]>> >>
        ELSE <<>>

\* intersectTriangleZ(tri, z)
IntersectTriangleZ(tri, z) ==
    LET calls == IntersectEdgeCalls(tri, z)
    IN  IF calls = <<>> THEN NoSegment
        ELSE [ start |-> IntersectEdge(calls[1][1], calls[1][2], z),
               end   |-> IntersectEdge(calls[2][1], calls[2][2], z) ]

\* Inputs of the intersection check: vertices on a small grid, planes below,
\* on, between and above the vertex heights.
IxXY == {0, 10000}
IxVertexZ == {0, 3000, 10000}
IxPlanes == {-1000, 0, 1000, 3000, 5000, 10000, 11000}
IxVertices == [x : IxXY, y : IxXY, z : IxVertexZ]
IxNormal == Pt(0, 0, 1000)
IxTriangles == [p1 : IxVertices, p2 : IxVertices, p3 : IxVertices, normal : {IxNormal}]

Intersect ==
    /\ ixPc = "call"
    /\ ixResult' = IntersectTriangleZ(ixTri, ixZ)
    /\ ixPc' = "returned"
    /\ UNCHANGED <<ixTri, ixZ, stlVars, chVars, slVars, gcVars, appVars>>

-----------------------------------------------------------------------------
(* chainSegments *)

\* mm tolerance for connecting points (0.05 mm)
EPSILON == 50

\* Math.hypot(p.x - q.x, p.y - q.y) < tol, on the squares
Near(p, q, tol) ==
    (p.x - q.x) * (p.x - q.x) + (p.y - q.y) * (p.y - q.y) < tol * tol

\* variant: no reverse check, only seg.start is compared
SegMatchesStartOnly(seg, tail) == Near(seg.start, tail, EPSILON)
\* seg.start or seg.end within EPSILON of the tail
SegMatches(seg, tail) == Near(seg.start, tail, EPSILON) \/ Near(seg.end, tail, EPSILON)

\* variant: the highest index taken (findLastIndex)
FindLastIndex(pool, tail) ==
    LET hits == {i \in 1..Len(pool) : SegMatches(pool[i], tail)}
    IN  IF hits = {} THEN 0 ELSE CHOOSE i \in hits : \A j \in hits : i >= j
\* pool.findIndex(...): the lowest (1-based) index of a segment with an
\* endpoint near the tail, 0 for -1
FindIndex(pool, tail) ==
    LET hits == {i \in 1..Len(pool) : SegMatches(pool[i], tail)}
    IN  IF hits = {} THEN 0 ELSE CHOOSE i \in hits : \A j \in hits : i <= j

\* pool.splice(idx, 1)
RemoveAt(pool, idx) == [i \in 1..(Len(pool) - 1) |-> IF i < idx THEN pool[i] ELSE pool[i + 1]]

\* variant: the orientation is not looked at, seg.end is always pushed
NextPointAlwaysEnd(seg, tail) == seg.end
\* variant: the branches swapped, the endpoint that matched is pushed
NextPointMatched(seg, tail) == IF Near(seg.start, tail, EPSILON) THEN seg.start ELSE seg.end
\* the point pushed for an absorbed segment: its end if its start matched
NextPoint(seg, tail) == IF Near(seg.start, tail, EPSILON) THEN seg.end ELSE seg.start

\* the inner while (growing) loop
RECURSIVE Grow(_, _)
Grow(loop, pool) ==
    LET tail == loop[Len(loop)]
        nextIdx == FindIndex(pool, tail)
    IN  IF nextIdx = 0 THEN [loop |-> loop, pool |-> pool]
        ELSE Grow(Append(loop, NextPoint(pool[nextIdx], tail)), RemoveAt(pool, nextIdx))

\* variant: the head pushed after the tail instead of replacing it
CloseLoopPushes(loop) ==
    IF Near(loop[1], loop[Len(loop)], EPSILON * 2) THEN Append(loop, loop[1]) ELSE loop
\* Check if loop is closed (approx); close the loop perfectly
CloseLoop(loop) ==
    IF Near(loop[1], loop[Len(loop)], EPSILON * 2)
      THEN [loop EXCEPT ![Len(loop)] = loop[1]]
      ELSE loop

\* variant: 2-point chains kept
KeepLoopFrom2(loop) == Len(loop) >= 2
\* if (loop.length > 2) loops.push(loop)
KeepLoop(loop) == Len(loop) > 2

\* One iteration of the outer while: seed with the last pool segment, grow,
\* close.  Gives the chain built and the pool left.
ChainIteration(pool) ==
    LET firstSeg == pool[Len(pool)]
        g == Grow(<<firstSeg.start, firstSeg.end>>, SubSeq(pool, 1, Len(pool) - 1))
    IN  [loop |-> CloseLoop(g.loop), pool |-> g.pool]

RECURSIVE ChainFrom(_, _)
ChainFrom(pool, loops) ==
    IF Len(pool) = 0 THEN loops
    ELSE LET it == ChainIteration(pool)
         IN  ChainFrom(it.pool, IF KeepLoop(it.loop) THEN Append(loops, it.loop) ELSE loops)

\* chainSegments(segments), the whole call
ChainSegments(segments) == ChainFrom(segments, <<>>)

\* Inputs of the stitching check: up to MaxSegments segments between points of
\* one plane: a corner, a point within EPSILON of it, a point within
\* 2*EPSILON of it but not within EPSILON of either, and a point exactly
\* 2*EPSILON from the second and farther from the others.
MaxSegments == 3
ChPoints == { Pt(0, 0, 200), Pt(30, 0, 200), Pt(80, 0, 200), Pt(30, 100, 200) }
ChSegs == [start : ChPoints, end : ChPoints]

RECURSIVE SeqsUpTo(_, _)
SeqsUpTo(S, n) ==
    IF n = 0 THEN {<<>>}
    ELSE LET shorter == SeqsUpTo(S, n - 1)
         IN  shorter \cup {Append(q, e) : q \in {r \in shorter : Len(r) = n - 1}, e \in S}

\* variant: the seed is read from the end of the pool and left in it
ChainSeedPeek ==
    /\ chPc = "chaining"
    /\ Len(chPool) > 0
    /\ chLoop' = <<chPool[Len(chPool)].start, chPool[Len(chPool)].end>>
    /\ chPc' = "growing"
    /\ UNCHANGED <<chSegments, chPool, chLoops, chBuilt, stlVars, ixVars, slVars, gcVars, appVars>>
\* while (pool.length > 0): const firstSeg = pool.pop(); loop = [start, end]
ChainSeed ==
    /\ chPc = "chaining"
    /\ Len(chPool) > 0
    /\ chLoop' = <<chPool[Len(chPool)].start, chPool[Len(chPool)].end>>
    /\ chPool' = SubSeq(chPool, 1, Len(chPool) - 1)
    /\ chPc' = "growing"
    /\ UNCHANGED <<chSegments, chLoops, chBuilt, stlVars, ixVars, slVars, gcVars, appVars>>

\* variant: a segment that meets the head of the loop when none meets its tail
\* is taken too, its other endpoint put in front
ChainAbsorbEitherEnd ==
    /\ chPc = "growing"
    /\ LET tail == chLoop[Len(chLoop)]
           nextIdx == FindIndex(chPool, tail)
           headIdx == FindIndex(chPool, chLoop[1])
       IN  IF nextIdx # 0
             THEN /\ chLoop' = Append(chLoop, NextPoint(chPool[nextIdx], tail))
                  /\ chPool' = RemoveAt(chPool, nextIdx)
             ELSE /\ headIdx # 0
                  /\ chLoop' = <<NextPoint(chPool[headIdx], chLoop[1])>> \o chLoop
                  /\ chPool' = RemoveAt(chPool, headIdx)
    /\ UNCHANGED <<chSegments, chLoops, chBuilt, chPc, stlVars, ixVars, slVars, gcVars, appVars>>
\* one iteration of while (growing) that finds a segment: splice and push
ChainAbsorb ==
    /\ chPc = "growing"
    /\ LET tail == chLoop[Len(chLoop)]
           nextIdx == FindIndex(chPool, tail)
       IN  /\ nextIdx # 0
           /\ chLoop' = Append(chLoop, NextPoint(chPool[nextIdx], tail))
           /\ chPool' = RemoveAt(chPool, nextIdx)
    /\ UNCHANGED <<chSegments, chLoops, chBuilt, chPc, stlVars, ixVars, slVars, gcVars, appVars>>

\* the iteration of while (growing) that finds none, then the closure check
\* and if (loop.length > 2) loops.push(loop)
ChainClose ==
    /\ chPc = "growing"
    /\ FindIndex(chPool, chLoop[Len(chLoop)]) = 0
    /\ chLoop' = CloseLoop(chLoop)
    /\ chLoops' = IF KeepLoop(chLoop') THEN Append(chLoops, chLoop') ELSE chLoops
    /\ chBuilt' = Append(chBuilt, chLoop')
    /\ chPc' = "chaining"
    /\ UNCHANGED <<chSegments, chPool, stlVars, ixVars, slVars, gcVars, appVars>>

\* return loops
ChainReturn ==
    /\ chPc = "chaining"
    /\ Len(chPool) = 0
    /\ chPc' = "returned"
    /\ UNCHANGED <<chSegments, chPool, chLoop, chLoops, chBuilt, stlVars, ixVars, slVars, gcVars, appVars>>

-----------------------------------------------------------------------------
(* applyTransform, getZBounds *)

\* a + b in the doubles: an infinity absorbs a finite term
AddF(a, b) == IF a = PosInf \/ a = NegInf THEN a ELSE a + b

\* variant: the rotation field applied, a quarter turn about Z
TransformPointRotated(p, t) ==
    IF t.rotation = 90
      THEN [ x |-> RoundDiv((0 - p.y) * t.scale, 1000) + t.x,
             y |-> RoundDiv(p.x * t.scale, 1000) + t.y,
             z |-> RoundDiv(p.z * t.scale, 1000) + t.z ]
      ELSE [ x |-> RoundDiv(p.x * t.scale, 1000) + t.x,
             y |-> RoundDiv(p.y * t.scale, 1000) + t.y,
             z |-> RoundDiv(p.z * t.scale, 1000) + t.z ]
\* p.x * t.scale + t.x, and so for y and z; t.scale is held in thousandths
TransformPoint(p, t) ==
    [ x |-> RoundDiv(p.x * t.scale, 1000) + t.x,
      y |-> RoundDiv(p.y * t.scale, 1000) + t.y,
      z |-> RoundDiv(p.z * t.scale, 1000) + t.z ]

ApplyTransform(tri, t) ==
    [ p1 |-> TransformPoint(tri.p1, t),
      p2 |-> TransformPoint(tri.p2, t),
      p3 |-> TransformPoint(tri.p3, t),
      normal |-> tri.normal ]

TriMinZ(tri) == Min2(tri.p1.z, Min2(tri.p2.z, tri.p3.z))
TriMaxZ(tri) == Max2(tri.p1.z, Max2(tri.p2.z, tri.p3.z))

RECURSIVE ZBoundsFrom(_, _, _, _)
ZBoundsFrom(triangles, i, min, max) ==
    IF i > Len(triangles) THEN [min |-> min, max |-> max]
    ELSE ZBoundsFrom(triangles, i + 1, Min2(min, TriMinZ(triangles[i])),
                     Max2(max, TriMaxZ(triangles[i])))

\* let min = Infinity; let max = -Infinity; triangles.forEach(...)
GetZBounds(triangles) == ZBoundsFrom(triangles, 1, PosInf, NegInf)

-----------------------------------------------------------------------------
(* sliceMesh: the layer loop *)

\* the first layer's lift, minZ + 0.2
FirstLayerLift == 200

\* variant: a triangle that only touches the plane culled too
CulledTouching(tri, z) == z <= TriMinZ(tri) \/ z >= TriMaxZ(tri)
\* Optimization: Z-check
Culled(tri, z) == z < TriMinZ(tri) \/ z > TriMaxZ(tri)

RECURSIVE LayerSegmentsFrom(_, _, _, _)
LayerSegmentsFrom(triangles, i, z, acc) ==
    IF i > Len(triangles) THEN acc
    ELSE LET tri == triangles[i]
             seg == IF Culled(tri, z) THEN NoSegment ELSE IntersectTriangleZ(tri, z)
         IN  LayerSegmentsFrom(triangles, i + 1, z,
                               IF seg = NoSegment THEN acc ELSE Append(acc, seg))

\* for (const tri of triangles) { ... layerSegments.push(seg) }
LayerSegments(triangles, z) == LayerSegmentsFrom(triangles, 1, z, <<>>)

\* Topology: Connect segments into contours
LayerContours(triangles, z) ==
    LET layerSegments == LayerSegments(triangles, z)
    IN  IF Len(layerSegments) > 0 THEN ChainSegments(layerSegments) ELSE <<>>

\* variants: z < maxZ, and the lift left out of the comparison
LayerLoopRunsStrict(z, maxZ) == z < maxZ
LayerLoopRunsFromMinZ(z, maxZ) == z - FirstLayerLift <= maxZ
\* the loop test z <= maxZ
LayerLoopRuns(z, maxZ) == z <= maxZ

\* variant: the step taken upwards whatever the sign of layerHeight
NextLayerZAbs(z, settings) == AddF(z, Abs(settings.layerHeight))
\* the loop step z += settings.layerHeight
NextLayerZ(z, settings) == AddF(z, settings.layerHeight)

\* The most layers a run of the model is followed for: a layer loop that does
\* not end is cut here.  No run whose layer loop ends has this many layers.
MaxLayers == 64

-----------------------------------------------------------------------------
(* sliceMesh: G-code emission *)

\* Units: feedrates in mm/min, time in ms, filament in 0.0000001 mm (the
\* product of a distance in 0.001 mm and extrusionPerMM in 1/10000).

\* floor of the square root, by bisection: lo*lo <= n < hi*hi
RECURSIVE SqrtBetween(_, _, _)
SqrtBetween(n, lo, hi) ==
    IF hi - lo <= 1 THEN lo
    ELSE LET mid == (lo + hi) \div 2
         IN  IF mid * mid <= n THEN SqrtBetween(n, mid, hi) ELSE SqrtBetween(n, lo, mid)

\* the square root rounded to the nearest unit
Sqrt(n) == LET r == SqrtBetween(n, 0, 46340)
           IN  IF n - r * r > r THEN r + 1 ELSE r

\* Math.hypot(dx, dy)
Hypot(dx, dy) == Sqrt(dx * dx + dy * dy)

\* Math.PI * Math.pow(filamentDiameter / 2, 2), in (0.01 mm)^2, PI as 355/113
FilamentArea(settings) ==
    RoundDiv(355 * RoundDiv(settings.filamentDiameter * settings.filamentDiameter, 100),
             113 * 4)

\* (nozzleDiameter * layerHeight) / filamentArea, in 1/10000
ExtrusionPerMM(settings) ==
    RoundDiv(settings.nozzleDiameter * settings.layerHeight * 100, FilamentArea(settings))

\* (dist / feedrate) * 60, in ms
MoveTime(dist, feedrate) == RoundDiv(dist * 60, feedrate)

\* v.toFixed(digits) of a length v: the number of 10^-digits mm printed
ToFixed(v, digits) == IF digits = 3 THEN v ELSE RoundDiv(v, 10)

\* totalFilament.toFixed(digits): the number of 10^-digits mm printed
FilamentToFixed(v, digits) == IF digits = 7 THEN v ELSE RoundDiv(v, 100)

Preamble(settings) ==
    << [cmd |-> "; Generated by DeltaSim Pro Slicer"],
       [cmd |-> "M104", S |-> settings.temperature],
       [cmd |-> "G28"],
       [cmd |-> "M109", S |-> settings.temperature],
       [cmd |-> "G90"],
       [cmd |-> "G92", E |-> 0] >>

Postamble ==
    << [cmd |-> "M104", S |-> 0], [cmd |-> "G28"], [cmd |-> "M84"] >>

\* variant: totalFilament and totalTime kept from the call before, as if they
\* were declared outside sliceMesh
EmStartTotalsKept(settings) ==
    [ lines |-> Preamble(settings), path |-> <<>>, filament |-> slTotalFilament,
      time |-> slTotalTime, pos |-> Pt(0, 0, 0) ]
\* The emission state: gcodeLines, visualPath, totalFilament, totalTime, currentPos.
EmStart(settings) ==
    [ lines |-> Preamble(settings), path |-> <<>>, filament |-> 0, time |-> 0,
      pos |-> Pt(0, 0, 0) ]

\* variant: the E value of a move is the extrusion of that move alone
EmitExtrudePerMove(st, p, layerZ, settings) ==
    LET dist == Hypot(p.x - st.pos.x, p.y - st.pos.y)
        extrudeAmount == dist * ExtrusionPerMM(settings)
    IN  [ lines |-> Append(st.lines,
                      [cmd |-> "G1", X |-> ToFixed(p.x, 3), Y |-> ToFixed(p.y, 3),
                       E |-> FilamentToFixed(extrudeAmount, 5),
                       F |-> settings.printSpeed]),
          path |-> Append(st.path, Pt(p.x, p.y, layerZ)),
          filament |-> st.filament + extrudeAmount,
          time |-> st.time + MoveTime(dist, settings.printSpeed),
          pos |-> Pt(p.x, p.y, layerZ) ]
\* 2. Extrude through loop: one iteration of for (i = 1; i < loop.length; i++)
EmitExtrude(st, p, layerZ, settings) ==
    LET dist == Hypot(p.x - st.pos.x, p.y - st.pos.y)
        extrudeAmount == dist * ExtrusionPerMM(settings)
        totalFilament == st.filament + extrudeAmount
    IN  [ lines |-> Append(st.lines,
                      [cmd |-> "G1", X |-> ToFixed(p.x, 3), Y |-> ToFixed(p.y, 3),
                       E |-> FilamentToFixed(totalFilament, 5),
                       F |-> settings.printSpeed]),
          path |-> Append(st.path, Pt(p.x, p.y, layerZ)),
          filament |-> totalFilament,
          time |-> st.time + MoveTime(dist, settings.printSpeed),
          pos |-> Pt(p.x, p.y, layerZ) ]

\* variant: the travel move emitted whatever the distance
EmitTravelAlways(st, start, layerZ, settings) ==
    [ lines |-> Append(st.lines,
                  [cmd |-> "G0", X |-> ToFixed(start.x, 3),
                   Y |-> ToFixed(start.y, 3), F |-> settings.travelSpeed]),
      path |-> Append(st.path, Pt(start.x, start.y, layerZ)),
      filament |-> st.filament,
      time |-> st.time + MoveTime(Hypot(start.x - st.pos.x, start.y - st.pos.y),
                                  settings.travelSpeed),
      pos |-> Pt(start.x, start.y, layerZ) ]
\* variant: the travel move emitted without its visualization point
EmitTravelNoPoint(st, start, layerZ, settings) ==
    LET dx == start.x - st.pos.x
        dy == start.y - st.pos.y
    IN  IF dx * dx + dy * dy > 50 * 50
          THEN [ st EXCEPT
                   !.lines = Append(st.lines,
                               [cmd |-> "G0", X |-> ToFixed(start.x, 3),
                                Y |-> ToFixed(start.y, 3), F |-> settings.travelSpeed]),
                   !.time = st.time + MoveTime(Hypot(dx, dy), settings.travelSpeed),
                   !.pos = Pt(start.x, start.y, layerZ) ]
          ELSE st
\* 1. Move to start of loop (Travel)
EmitTravel(st, start, layerZ, settings) ==
    LET dx == start.x - st.pos.x
        dy == start.y - st.pos.y
        travelDist == Hypot(dx, dy)
    IN  IF dx * dx + dy * dy > 50 * 50
          THEN [ lines |-> Append(st.lines,
                             [cmd |-> "G0", X |-> ToFixed(start.x, 3),
                              Y |-> ToFixed(start.y, 3), F |-> settings.travelSpeed]),
                 path |-> Append(st.path, Pt(start.x, start.y, layerZ)),
                 filament |-> st.filament,
                 time |-> st.time + MoveTime(travelDist, settings.travelSpeed),
                 pos |-> Pt(start.x, start.y, layerZ) ]
          ELSE st

\* variant: the Z move takes no time
EmitZMoveUntimed(st, index, layerZ, settings) ==
    [ st EXCEPT
        !.lines = st.lines \o
                  << [cmd |-> "; --- Layer", n |-> index + 1, Z |-> ToFixed(layerZ, 2)],
                     [cmd |-> "G1", Z |-> ToFixed(layerZ, 3), F |-> settings.travelSpeed] >>,
        !.pos = [st.pos EXCEPT !.z = layerZ] ]
\* the comment and the G1 Z line of a layer, its time, currentPos.z = layerZ
EmitZMove(st, index, layerZ, settings) ==
    [ st EXCEPT
        !.lines = st.lines \o
                  << [cmd |-> "; --- Layer", n |-> index + 1, Z |-> ToFixed(layerZ, 2)],
                     [cmd |-> "G1", Z |-> ToFixed(layerZ, 3), F |-> settings.travelSpeed] >>,
        !.time = st.time + MoveTime(Abs(layerZ - st.pos.z), settings.travelSpeed),
        !.pos = [st.pos EXCEPT !.z = layerZ] ]

-----------------------------------------------------------------------------
(* sliceMesh: inputs *)

Tri(a, b, c, n) == [p1 |-> a, p2 |-> b, p3 |-> c, normal |-> n]

\* the cube of side 10 mm: 8 vertices, 12 triangles
CubeV(i, j, k) == Pt(i * 10000, j * 10000, k * 10000)
CubeMesh ==
    << Tri(CubeV(0,0,0), CubeV(1,1,0), CubeV(1,0,0), Pt(0, 0, -1)),
       Tri(CubeV(0,0,0), CubeV(0,1,0), CubeV(1,1,0), Pt(0, 0, -1)),
       Tri(CubeV(0,0,1), CubeV(1,0,1), CubeV(1,1,1), Pt(0, 0, 1)),
       Tri(CubeV(0,0,1), CubeV(1,1,1), CubeV(0,1,1), Pt(0, 0, 1)),
       Tri(CubeV(0,0,0), CubeV(1,0,0), CubeV(1,0,1), Pt(0, -1, 0)),
       Tri(CubeV(0,0,0), CubeV(1,0,1), CubeV(0,0,1), Pt(0, -1, 0)),
       Tri(CubeV(0,1,0), CubeV(0,1,1), CubeV(1,1,1), Pt(0, 1, 0)),
       Tri(CubeV(0,1,0), CubeV(1,1,1), CubeV(1,1,0), Pt(0, 1, 0)),
       Tri(CubeV(0,0,0), CubeV(0,0,1), CubeV(0,1,1), Pt(-1, 0, 0)),
       Tri(CubeV(0,0,0), CubeV(0,1,1), CubeV(0,1,0), Pt(-1, 0, 0)),
       Tri(CubeV(1,0,0), CubeV(1,1,0), CubeV(1,1,1), Pt(1, 0, 0)),
       Tri(CubeV(1,0,0), CubeV(1,1,1), CubeV(1,0,1), Pt(1, 0, 0)) >>

\* a tetrahedron with its apex over the inside of its base
TetraA == Pt(0, 0, 0)
TetraB == Pt(10000, 0, 0)
TetraC == Pt(0, 10000, 0)
TetraD == Pt(3000, 3000, 9000)
TetraMesh ==
    << Tri(TetraA, TetraC, TetraB, Pt(0, 0, -1)),
       Tri(TetraA, TetraB, TetraD, Pt(0, -1, 0)),
       Tri(TetraB, TetraC, TetraD, Pt(1, 1, 1)),
       Tri(TetraC, TetraA, TetraD, Pt(-1, 0, 0)) >>

\* an octahedron: apexes at z = 0 and z = 10 mm, a square equator at z = 5 mm
OctaBottom == Pt(5000, 5000, 0)
OctaTop == Pt(5000, 5000, 10000)
OctaEq(i) == CASE i = 1 -> Pt(0, 5000, 5000)
               [] i = 2 -> Pt(5000, 0, 5000)
               [] i = 3 -> Pt(10000, 5000, 5000)
               [] i = 4 -> Pt(5000, 10000, 5000)
OctaNext(i) == (i % 4) + 1
OctaMesh ==
    [ n \in 1..8 |->
        IF n <= 4 THEN Tri(OctaEq(n), OctaEq(OctaNext(n)), OctaTop, Pt(0, 0, 1))
                  ELSE Tri(OctaEq(OctaNext(n - 4)), OctaEq(n - 4), OctaBottom, Pt(0, 0, -1)) ]

\* one slanted triangle: an open mesh
OpenMesh == << Tri(Pt(0, 0, 0), Pt(10000, 0, 0), Pt(0, 10000, 4000), Pt(0, 0, 1)) >>

\* a slanted triangle below a tetrahedron, 1 mm apart: the planes through the
\* triangle and through the gap give layers without loops under layers with one
GapMesh ==
    << Tri(Pt(0, 0, 0), Pt(10000, 0, 0), Pt(0, 10000, 1000), Pt(0, 0, 1)),
       Tri(Pt(0, 0, 2000), Pt(0, 10000, 2000), Pt(10000, 0, 2000), Pt(0, 0, -1)),
       Tri(Pt(0, 0, 2000), Pt(10000, 0, 2000), Pt(3000, 3000, 5000), Pt(0, -1, 0)),
       Tri(Pt(10000, 0, 2000), Pt(0, 10000, 2000), Pt(3000, 3000, 5000), Pt(1, 1, 1)),
       Tri(Pt(0, 10000, 2000), Pt(0, 0, 2000), Pt(3000, 3000, 5000), Pt(-1, 0, 0)) >>

\* the side faces of an upright prism 4 mm high over a triangle; the cut of
\* the last triangle starts on an upright edge, at the same X,Y in every layer
PrismV(i, k) == CASE i = 1 -> Pt(0, 0, k * 4000)
                  [] i = 2 -> Pt(10000, 0, k * 4000)
                  [] i = 3 -> Pt(0, 10000, k * 4000)
PrismMesh ==
    << Tri(PrismV(1, 0), PrismV(2, 0), PrismV(2, 1), Pt(0, -1, 0)),
       Tri(PrismV(1, 0), PrismV(2, 1), PrismV(1, 1), Pt(0, -1, 0)),
       Tri(PrismV(2, 0), PrismV(3, 0), PrismV(3, 1), Pt(1, 1, 0)),
       Tri(PrismV(2, 0), PrismV(3, 1), PrismV(2, 1), Pt(1, 1, 0)),
       Tri(PrismV(3, 0), PrismV(1, 0), PrismV(1, 1), Pt(-1, 0, 0)),
       Tri(PrismV(3, 0), PrismV(3, 1), PrismV(1, 1), Pt(-1, 0, 0)) >>

ClosedConvexMeshes == {CubeMesh, TetraMesh, OctaMesh}
SlMeshes == ClosedConvexMeshes \cup {OpenMesh, GapMesh, PrismMesh, <<>>}

\* scale 1, 0.5 and 0.01 (a model thinner than the first-layer lift)
SlScales == {1000, 500, 10}
SlTransforms == [x : {0, 200}, y : {0}, z : {0, -300}, scale : SlScales, rotation : {0, 90}]
SlLayerHeights == {200, 1000, 2190, 2400}
SlSettingsSet ==
    [ filamentDiameter : {1750}, nozzleDiameter : {400}, layerHeight : SlLayerHeights,
      temperature : {200}, travelSpeed : {3000}, printSpeed : {1500} ]

slInputs == <<slMesh, slTransform, slSettings>>
slEmission == <<slLines, slVisualPath, slTotalFilament, slTotalTime, slCurrentPos, slLayerIdx,
                slEmitPc, slLoopIdx, slPointIdx>>
slOthers == <<stlVars, ixVars, chVars, gcVars, appVars>>

-----------------------------------------------------------------------------
(* sliceMesh: steps *)

\* 1. Transform geometry  2. Determine bounds; let z = minZ + 0.2
SliceStart ==
    /\ slPc = "start"
    /\ LET triangles == [i \in 1..Len(slMesh) |-> ApplyTransform(slMesh[i], slTransform)]
           b == GetZBounds(triangles)
       IN  /\ slTriangles' = triangles
           /\ slMinZ' = b.min
           /\ slMaxZ' = b.max
           /\ slZ' = AddF(b.min, FirstLayerLift)
    /\ slLayers' = <<>>
    /\ slPc' = "slicing"
    /\ UNCHANGED <<slOthers, slInputs, slEmission, slPrev>>

\* 3. one iteration of for (z = minZ + 0.2; z <= maxZ; z += layerHeight)
SliceLayer ==
    /\ slPc = "slicing"
    /\ LayerLoopRuns(slZ, slMaxZ)
    /\ Len(slLayers) < MaxLayers
    /\ slLayers' = Append(slLayers, LayerContours(slTriangles, slZ))
    /\ slZ' = NextLayerZ(slZ, slSettings)
    /\ UNCHANGED <<slOthers, slInputs, slPc, slTriangles, slMinZ, slMaxZ, slEmission, slPrev>>

\* the layer loop ends; 4. Generate G-code: the preamble and the totals
SliceEmitStart ==
    /\ slPc = "slicing"
    /\ ~LayerLoopRuns(slZ, slMaxZ)
    /\ LET st == EmStart(slSettings)
       IN  /\ slLines' = st.lines
           /\ slVisualPath' = st.path
           /\ slTotalFilament' = st.filament
           /\ slTotalTime' = st.time
           /\ slCurrentPos' = st.pos
    /\ slLayerIdx' = 0 /\ slEmitPc' = "layer" /\ slLoopIdx' = 0 /\ slPointIdx' = 0
    /\ slPc' = "emit"
    /\ UNCHANGED <<slOthers, slInputs, slTriangles, slMinZ, slMaxZ, slZ, slLayers, slPrev>>

\* the emission state held in the variables, and its assignment
EmState ==
    [ lines |-> slLines, path |-> slVisualPath, filament |-> slTotalFilament,
      time |-> slTotalTime, pos |-> slCurrentPos ]

EmAssign(st) ==
    /\ slLines' = st.lines
    /\ slVisualPath' = st.path
    /\ slTotalFilament' = st.filament
    /\ slTotalTime' = st.time
    /\ slCurrentPos' = st.pos

slFrame == <<slOthers, slInputs, slPc, slTriangles, slMinZ, slMaxZ, slZ, slLayers, slPrev>>
slTotals == <<slLines, slVisualPath, slTotalFilament, slTotalTime, slCurrentPos>>

\* variant: the index left out, every layer at the height of the first
LayerZNoIndex(minZ, index, settings) == AddF(minZ, FirstLayerLift)
\* const layerZ = minZ + 0.2 + (index * settings.layerHeight)
LayerZ(minZ, index, settings) == AddF(minZ, FirstLayerLift) + index * settings.layerHeight

\* variant: the layer comment is written before the test for an empty layer
SliceEmitSkipLayerCommented ==
    /\ slPc = "emit" /\ slEmitPc = "layer"
    /\ slLayerIdx < Len(slLayers)
    /\ Len(slLayers[slLayerIdx + 1]) = 0
    /\ slLines' = Append(slLines,
                     [cmd |-> "; --- Layer", n |-> slLayerIdx + 1,
                      Z |-> ToFixed(LayerZ(slMinZ, slLayerIdx, slSettings), 2)])
    /\ slLayerIdx' = slLayerIdx + 1
    /\ UNCHANGED <<slFrame, slVisualPath, slTotalFilament, slTotalTime, slCurrentPos,
                   slEmitPc, slLoopIdx, slPointIdx>>
\* layers.forEach callback on a layer without loops: if (loops.length === 0) return
SliceEmitSkipLayer ==
    /\ slPc = "emit" /\ slEmitPc = "layer"
    /\ slLayerIdx < Len(slLayers)
    /\ Len(slLayers[slLayerIdx + 1]) = 0
    /\ slLayerIdx' = slLayerIdx + 1
    /\ UNCHANGED <<slFrame, slTotals, slEmitPc, slLoopIdx, slPointIdx>>

\* layers.forEach callback on a layer with loops: the comment and the Z move
SliceEmitZMove ==
    /\ slPc = "emit" /\ slEmitPc = "layer"
    /\ slLayerIdx < Len(slLayers)
    /\ Len(slLayers[slLayerIdx + 1]) # 0
    /\ EmAssign(EmitZMove(EmState, slLayerIdx, LayerZ(slMinZ, slLayerIdx, slSettings),
                          slSettings))
    /\ slEmitPc' = "loop" /\ slLoopIdx' = 0
    /\ UNCHANGED <<slFrame, slLayerIdx, slPointIdx>>

\* loops.forEach callback: if (loop.length < 2) return; 1. Move to start of loop
SliceEmitTravel ==
    /\ slPc = "emit" /\ slEmitPc = "loop"
    /\ slLoopIdx < Len(slLayers[slLayerIdx + 1])
    /\ LET loop == slLayers[slLayerIdx + 1][slLoopIdx + 1]
       IN  IF Len(loop) < 2
             THEN /\ slLoopIdx' = slLoopIdx + 1
                  /\ UNCHANGED <<slTotals, slEmitPc, slPointIdx>>
             ELSE /\ EmAssign(EmitTravel(EmState, loop[1],
                                         LayerZ(slMinZ, slLayerIdx, slSettings), slSettings))
                  /\ slEmitPc' = "point" /\ slPointIdx' = 1
                  /\ UNCHANGED slLoopIdx
    /\ UNCHANGED <<slFrame, slLayerIdx>>

\* 2. Extrude through loop: one iteration of for (let i = 1; i < loop.length; i++)
SliceEmitExtrude ==
    /\ slPc = "emit" /\ slEmitPc = "point"
    /\ slPointIdx < Len(slLayers[slLayerIdx + 1][slLoopIdx + 1])
    /\ EmAssign(EmitExtrude(EmState, slLayers[slLayerIdx + 1][slLoopIdx + 1][slPointIdx + 1],
                            LayerZ(slMinZ, slLayerIdx, slSettings), slSettings))
    /\ slPointIdx' = slPointIdx + 1
    /\ UNCHANGED <<slFrame, slLayerIdx, slEmitPc, slLoopIdx>>

\* the for loop ends: the loops.forEach callback returns
SliceEmitLoopEnd ==
    /\ slPc = "emit" /\ slEmitPc = "point"
    /\ slPointIdx = Len(slLayers[slLayerIdx + 1][slLoopIdx + 1])
    /\ slEmitPc' = "loop" /\ slLoopIdx' = slLoopIdx + 1
    /\ UNCHANGED <<slFrame, slTotals, slLayerIdx, slPointIdx>>

\* loops.forEach ends: the layers.forEach callback returns
SliceEmitLayerEnd ==
    /\ slPc = "emit" /\ slEmitPc = "loop"
    /\ slLoopIdx = Len(slLayers[slLayerIdx + 1])
    /\ slEmitPc' = "layer" /\ slLayerIdx' = slLayerIdx + 1
    /\ UNCHANGED <<slFrame, slTotals, slLoopIdx, slPointIdx>>

\* the value returned: { paths, gcode: { name, lines, totalTime, totalFilament } }
NoRun == [none |-> TRUE]
SliceResult ==
    [ paths |-> slVisualPath,
      gcode |-> [ name |-> "output.gcode", lines |-> slLines, totalTime |-> slTotalTime,
                  totalFilament |-> slTotalFilament ] ]

\* the postamble; return { paths, gcode }
SliceReturn ==
    /\ slPc = "emit" /\ slEmitPc = "layer"
    /\ slLayerIdx = Len(slLayers)
    /\ slLines' = slLines \o Postamble
    /\ slPc' = "done"
    /\ UNCHANGED <<slOthers, slInputs, slTriangles, slMinZ, slMaxZ, slZ, slLayers, slVisualPath,
                   slTotalFilament, slTotalTime, slCurrentPos, slLayerIdx, slEmitPc,
                   slLoopIdx, slPointIdx, slPrev>>

\* sliceMesh is called again with the same arguments; the locals of the call
\* before are whatever it left
SliceAgain ==
    /\ slPc = "done"
    /\ slPrev = NoRun
    /\ slPrev' = SliceResult
    /\ slPc' = "start"
    /\ UNCHANGED <<slOthers, slInputs, slTriangles, slMinZ, slMaxZ, slZ, slLayers, slEmission>>

-----------------------------------------------------------------------------
(* parseGCodeFile (utils/gcodeParser.ts) *)

\* A line is modelled after line.split(';')[0].trim().toUpperCase() and
\* split(' '): its command word and its parameters <<letter, value>>, in
\* order.  Lengths and E in 0.001 mm, feedrates in mm/min, time in ms.

\* mm/min default
DefaultFeedrate == 3000

GcStart ==
    [ pos |-> [x |-> 0, y |-> 0, z |-> 0, e |-> 0], feedrate |-> DefaultFeedrate,
      totalFilament |-> 0 ]

\* the switch of parts.forEach on one parameter: acc holds nextX, nextY,
\* nextZ, nextE, hasMove, extruding, totalFilament and currentFeedrate
GcodeParam(line, currentPos, isRelative, isExtruderRelative, acc, part) ==
    LET val == part[2]
    IN  CASE part[1] = "X" ->
               [acc EXCEPT !.nextX = IF isRelative THEN currentPos.x + val ELSE val,
                           !.hasMove = TRUE]
          [] part[1] = "Y" ->
               [acc EXCEPT !.nextY = IF isRelative THEN currentPos.y + val ELSE val,
                           !.hasMove = TRUE]
          [] part[1] = "Z" ->
               [acc EXCEPT !.nextZ = IF isRelative THEN currentPos.z + val ELSE val,
                           !.hasMove = TRUE]
          [] part[1] = "E" ->
               LET eDelta == IF isExtruderRelative THEN val ELSE val - currentPos.e
               IN  [acc EXCEPT !.extruding = acc.extruding \/ eDelta > 0,
                               !.nextE = val,
                               !.totalFilament = acc.totalFilament + Max2(0, eDelta)]
          [] part[1] = "F" -> [acc EXCEPT !.currentFeedrate = val]
          [] OTHER -> acc

\* parts.forEach over the parameters from position i on
RECURSIVE GcodeParamsFrom(_, _, _, _, _, _)
GcodeParamsFrom(line, currentPos, isRelative, isExtruderRelative, acc, i) ==
    IF i > Len(line.parts) THEN acc
    ELSE GcodeParamsFrom(line, currentPos, isRelative, isExtruderRelative,
                         GcodeParam(line, currentPos, isRelative, isExtruderRelative,
                                    acc, line.parts[i]),
                         i + 1)

\* Math.sqrt(dx**2 + dy**2 + dz**2)
Dist3(dx, dy, dz) == Sqrt(dx * dx + dy * dy + dz * dz)

\* updateBounds on one coordinate, min and max starting at the infinities
BoundMin(m, v) == IF m = PosInf THEN v ELSE Min2(m, v)
BoundMax(m, v) == IF m = NegInf THEN v ELSE Max2(m, v)

IsMoveWord(word) == word \in {"G0", "G1"}

\* one iteration of for (const line of lines)
GcodeLine ==
    /\ gcPc = "parsing"
    /\ gcIdx < Len(gcLines)
    /\ LET line == gcLines[gcIdx + 1]
           isRelative == IF line.word = "G90" THEN FALSE
                         ELSE IF line.word = "G91" THEN TRUE ELSE gcIsRelative
           isExtruderRelative == IF line.word = "M82" THEN FALSE
                                 ELSE IF line.word = "M83" THEN TRUE
                                 ELSE gcIsExtruderRelative
           acc0 == [ nextX |-> gcCurrentPos.x, nextY |-> gcCurrentPos.y,
                     nextZ |-> gcCurrentPos.z, nextE |-> gcCurrentPos.e,
                     hasMove |-> FALSE, extruding |-> FALSE,
                     totalFilament |-> gcTotalFilament,
                     currentFeedrate |-> gcCurrentFeedrate ]
           acc == IF IsMoveWord(line.word)
                    THEN GcodeParamsFrom(line, gcCurrentPos, isRelative,
                                         isExtruderRelative, acc0, 1)
                    ELSE acc0
           dist == Dist3(acc.nextX - gcCurrentPos.x, acc.nextY - gcCurrentPos.y,
                         acc.nextZ - gcCurrentPos.z)
           moved == IsMoveWord(line.word) /\ acc.hasMove /\ dist > 0
           newPoint == [ x |-> acc.nextX, y |-> acc.nextY, z |-> acc.nextZ, e |-> acc.nextE,
                         isTravel |-> (line.word = "G0" \/ ~acc.extruding) ]
       IN  /\ gcIsRelative' = isRelative
           /\ gcIsExtruderRelative' = isExtruderRelative
           /\ gcTotalFilament' = acc.totalFilament
           /\ gcCurrentFeedrate' = acc.currentFeedrate
           /\ IF moved
                THEN /\ gcTotalTime' = gcTotalTime + MoveTime(dist, acc.currentFeedrate)
                     /\ gcPoints' = Append(gcPoints, newPoint)
                     /\ gcMin' = [ x |-> BoundMin(gcMin.x, newPoint.x),
                                   y |-> BoundMin(gcMin.y, newPoint.y),
                                   z |-> BoundMin(gcMin.z, newPoint.z) ]
                     /\ gcMax' = [ x |-> BoundMax(gcMax.x, newPoint.x),
                                   y |-> BoundMax(gcMax.y, newPoint.y),
                                   z |-> BoundMax(gcMax.z, newPoint.z) ]
                     /\ gcCurrentPos' = [ x |-> acc.nextX, y |-> acc.nextY,
                                          z |-> acc.nextZ, e |-> acc.nextE ]
                ELSE UNCHANGED <<gcTotalTime, gcPoints, gcMin, gcMax, gcCurrentPos>>
    /\ gcIdx' = gcIdx + 1
    /\ UNCHANGED <<gcLines, gcPc, stlVars, ixVars, chVars, slVars, appVars>>

\* Handle case where no moves were parsed; return
GcodeReturn ==
    /\ gcPc = "parsing"
    /\ gcIdx = Len(gcLines)
    /\ IF Len(gcPoints) = 0
         THEN gcMin' = Pt(0, 0, 0) /\ gcMax' = Pt(0, 0, 0)
         ELSE UNCHANGED <<gcMin, gcMax>>
    /\ gcPc' = "returned"
    /\ UNCHANGED <<gcLines, gcIdx, gcPoints, gcCurrentPos, gcCurrentFeedrate, gcTotalTime,
                   gcTotalFilament, gcIsRelative, gcIsExtruderRelative,
                   stlVars, ixVars, chVars, slVars, appVars>>

\* The lines of the model: modal words, and moves with and without X, Z, E, F.
MaxGcodeLines == 3
GcodeEs == {1000, 2000, 3000}
GcodeLineSet ==
    { [word |-> w, parts |-> <<>>] : w \in {"G90", "G91", "M82", "M83"} }
    \cup { [word |-> "G1", parts |-> << <<"E", e>> >>] : e \in GcodeEs }
    \cup { [word |-> "G1", parts |-> << <<"X", x>>, <<"E", e>> >>] :
             x \in {0, 10000}, e \in GcodeEs }
    \cup { [word |-> "G1", parts |-> << <<"X", 10000>> >>],
           [word |-> "G1", parts |-> << <<"Z", 200>>, <<"F", 1500>> >>],
           [word |-> "G0", parts |-> << <<"X", 0>>, <<"Y", 10000>> >>] }

-----------------------------------------------------------------------------
(* App: the playback timer and its buttons (App.tsx) *)

NoPath == -1

\* the setInterval callback: setPlaybackIndex(prev => ...), every 20 ms while
\* isPlaying && simPath
Tick ==
    /\ isPlaying /\ simPath # NoPath
    /\ LET next == playbackIndex + (1 * playbackSpeed)
       IN  IF next >= simPath - 1
             THEN /\ isPlaying' = FALSE
                  /\ playbackIndex' = simPath - 1
             ELSE /\ playbackIndex' = next
                  /\ UNCHANGED isPlaying
    /\ UNCHANGED <<simPath, playbackSpeed, stlVars, ixVars, chVars, slVars, gcVars>>

\* the play / pause button: setIsPlaying(!isPlaying)
TogglePlay ==
    /\ simPath # NoPath
    /\ isPlaying' = ~isPlaying
    /\ UNCHANGED <<simPath, playbackIndex, playbackSpeed,
                   stlVars, ixVars, chVars, slVars, gcVars>>

\* the skip buttons jump by 100 points
SkipStep == 100

\* setPlaybackIndex(Math.max(0, playbackIndex - 100))
SkipBack ==
    /\ simPath # NoPath
    /\ playbackIndex' = Max2(0, playbackIndex - SkipStep)
    /\ UNCHANGED <<simPath, isPlaying, playbackSpeed,
                   stlVars, ixVars, chVars, slVars, gcVars>>

\* setPlaybackIndex(Math.min(simPath.original.length - 1, playbackIndex + 100))
SkipForward ==
    /\ simPath # NoPath
    /\ playbackIndex' = Min2(simPath - 1, playbackIndex + SkipStep)
    /\ UNCHANGED <<simPath, isPlaying, playbackSpeed,
                   stlVars, ixVars, chVars, slVars, gcVars>>

\* the scrubber, a range input from 0 to simPath.original.length - 1:
\* setPlaybackIndex(parseInt(e.target.value)); setIsPlaying(false)
Scrub ==
    /\ simPath # NoPath
    /\ \E value \in 0..(simPath - 1) : playbackIndex' = value
    /\ isPlaying' = FALSE
    /\ UNCHANGED <<simPath, playbackSpeed, stlVars, ixVars, chVars, slVars, gcVars>>

\* The paths and speeds of the model: paths of 0 to MaxPathLength points, and
\* positive speeds.
MaxPathLength == 120
PlaybackSpeeds == {1, 7, 10, 50}

\* the speed input: setPlaybackSpeed(parseInt(e.target.value))
SetPlaybackSpeed ==
    /\ simPath # NoPath
    /\ \E value \in PlaybackSpeeds : playbackSpeed' = value
    /\ UNCHANGED <<simPath, isPlaying, playbackIndex, stlVars, ixVars, chVars, slVars, gcVars>>

-----------------------------------------------------------------------------
(* Specifications *)

\* The idle values of the variables of the components a specification leaves out.
IdleBuf == [len |-> 0, count |-> 0, seed |-> 0]
GcIdle ==
    /\ gcLines = <<>> /\ gcIdx = 0 /\ gcPoints = <<>>
    /\ gcCurrentPos = GcStart.pos /\ gcCurrentFeedrate = GcStart.feedrate
    /\ gcTotalTime = 0 /\ gcTotalFilament = 0
    /\ gcIsRelative = FALSE /\ gcIsExtruderRelative = FALSE
    /\ gcMin = Pt(PosInf, PosInf, PosInf) /\ gcMax = Pt(NegInf, NegInf, NegInf)
    /\ gcPc = "idle"
AppIdle ==
    /\ simPath = NoPath /\ isPlaying = FALSE /\ playbackIndex = 0 /\ playbackSpeed = 10
IdleTri == [p1 |-> Pt(0, 0, 0), p2 |-> Pt(0, 0, 0), p3 |-> Pt(0, 0, 0), normal |-> IxNormal]
IdleTransform == [x |-> 0, y |-> 0, z |-> 0, scale |-> 1000, rotation |-> 0]
IdleSettings == [filamentDiameter |-> 1750, nozzleDiameter |-> 400, layerHeight |-> 200,
                 temperature |-> 200, travelSpeed |-> 3000, printSpeed |-> 1500]

\* parseSTL on the buffers of StlBuffers
InitSTL ==
    /\ stlBuf \in StlBuffers /\ stlPc = "call" /\ stlTriangles = <<>>
    /\ ixTri = IdleTri /\ ixZ = 0 /\ ixPc = "idle" /\ ixResult = NoSegment
    /\ chSegments = <<>> /\ chPool = <<>> /\ chLoop = <<>> /\ chLoops = <<>> /\ chPc = "idle"
    /\ chBuilt = <<>>
    /\ slMesh = <<>> /\ slTransform = IdleTransform /\ slSettings = IdleSettings
    /\ slPc = "idle" /\ slTriangles = <<>> /\ slMinZ = 0 /\ slMaxZ = 0 /\ slZ = 0
    /\ slLayers = <<>> /\ slLines = <<>> /\ slVisualPath = <<>>
    /\ slTotalFilament = 0 /\ slTotalTime = 0 /\ slCurrentPos = Pt(0, 0, 0)
    /\ slLayerIdx = 0 /\ slEmitPc = "layer" /\ slLoopIdx = 0 /\ slPointIdx = 0
    /\ slPrev = NoRun
    /\ GcIdle /\ AppIdle
StlNext == ParseSTL
SpecSTL == InitSTL /\ [][StlNext]_vars

\* intersectTriangleZ on the triangles of IxTriangles and the planes of IxPlanes
InitIntersect ==
    /\ stlBuf = IdleBuf /\ stlPc = "idle" /\ stlTriangles = <<>>
    /\ ixTri \in IxTriangles /\ ixZ \in IxPlanes /\ ixPc = "call" /\ ixResult = NoSegment
    /\ chSegments = <<>> /\ chPool = <<>> /\ chLoop = <<>> /\ chLoops = <<>> /\ chPc = "idle"
    /\ chBuilt = <<>>
    /\ slMesh = <<>> /\ slTransform = IdleTransform /\ slSettings = IdleSettings
    /\ slPc = "idle" /\ slTriangles = <<>> /\ slMinZ = 0 /\ slMaxZ = 0 /\ slZ = 0
    /\ slLayers = <<>> /\ slLines = <<>> /\ slVisualPath = <<>>
    /\ slTotalFilament = 0 /\ slTotalTime = 0 /\ slCurrentPos = Pt(0, 0, 0)
    /\ slLayerIdx = 0 /\ slEmitPc = "layer" /\ slLoopIdx = 0 /\ slPointIdx = 0
    /\ slPrev = NoRun
    /\ GcIdle /\ AppIdle
IxNext == Intersect
SpecIntersect == InitIntersect /\ [][IxNext]_vars

\* chainSegments on the segment lists of ChSegs: const loops = []; pool = [...segments]
InitChain ==
    /\ stlBuf = IdleBuf /\ stlPc = "idle" /\ stlTriangles = <<>>
    /\ ixTri = IdleTri /\ ixZ = 0 /\ ixPc = "idle" /\ ixResult = NoSegment
    /\ chSegments \in SeqsUpTo(ChSegs, MaxSegments)
    /\ chPool = chSegments /\ chLoop = <<>> /\ chLoops = <<>> /\ chPc = "chaining"
    /\ chBuilt = <<>>
    /\ slMesh = <<>> /\ slTransform = IdleTransform /\ slSettings = IdleSettings
    /\ slPc = "idle" /\ slTriangles = <<>> /\ slMinZ = 0 /\ slMaxZ = 0 /\ slZ = 0
    /\ slLayers = <<>> /\ slLines = <<>> /\ slVisualPath = <<>>
    /\ slTotalFilament = 0 /\ slTotalTime = 0 /\ slCurrentPos = Pt(0, 0, 0)
    /\ slLayerIdx = 0 /\ slEmitPc = "layer" /\ slLoopIdx = 0 /\ slPointIdx = 0
    /\ slPrev = NoRun
    /\ GcIdle /\ AppIdle
ChNext == ChainSeed \/ ChainAbsorb \/ ChainClose \/ ChainReturn
SpecChain == InitChain /\ [][ChNext]_vars

\* chainSegments on the segments of an open polyline, in every order and with
\* every orientation.  The polyline has MaxPolyline segments or one less, at
\* least 3; its points are 10 mm apart.
MaxPolyline == 4
PolyPoint(i) == Pt(i * 10000, 0, 200)
PolySegment(k, forward) ==
    IF forward THEN [start |-> PolyPoint(k - 1), end |-> PolyPoint(k)]
    ELSE [start |-> PolyPoint(k), end |-> PolyPoint(k - 1)]
PolylineInputs ==
    UNION { { [i \in 1..n |-> PolySegment(order[i], forward[i])] :
                order \in Permutations(1..n), forward \in [1..n -> BOOLEAN] } :
            n \in (MaxPolyline - 1)..MaxPolyline }
InitPolyline ==
    /\ stlBuf = IdleBuf /\ stlPc = "idle" /\ stlTriangles = <<>>
    /\ ixTri = IdleTri /\ ixZ = 0 /\ ixPc = "idle" /\ ixResult = NoSegment
    /\ chSegments \in PolylineInputs
    /\ chPool = chSegments /\ chLoop = <<>> /\ chLoops = <<>> /\ chPc = "chaining"
    /\ chBuilt = <<>>
    /\ slMesh = <<>> /\ slTransform = IdleTransform /\ slSettings = IdleSettings
    /\ slPc = "idle" /\ slTriangles = <<>> /\ slMinZ = 0 /\ slMaxZ = 0 /\ slZ = 0
    /\ slLayers = <<>> /\ slLines = <<>> /\ slVisualPath = <<>>
    /\ slTotalFilament = 0 /\ slTotalTime = 0 /\ slCurrentPos = Pt(0, 0, 0)
    /\ slLayerIdx = 0 /\ slEmitPc = "layer" /\ slLoopIdx = 0 /\ slPointIdx = 0
    /\ slPrev = NoRun
    /\ GcIdle /\ AppIdle
SpecPolyline == InitPolyline /\ [][ChNext]_vars

\* parseGCodeFile on every sequence of up to MaxGcodeLines lines of GcodeLineSet
InitGcode ==
    /\ stlBuf = IdleBuf /\ stlPc = "idle" /\ stlTriangles = <<>>
    /\ ixTri = IdleTri /\ ixZ = 0 /\ ixPc = "idle" /\ ixResult = NoSegment
    /\ chSegments = <<>> /\ chPool = <<>> /\ chLoop = <<>> /\ chLoops = <<>> /\ chPc = "idle"
    /\ chBuilt = <<>>
    /\ slMesh = <<>> /\ slTransform = IdleTransform /\ slSettings = IdleSettings
    /\ slPc = "idle" /\ slTriangles = <<>> /\ slMinZ = 0 /\ slMaxZ = 0 /\ slZ = 0
    /\ slLayers = <<>> /\ slLines = <<>> /\ slVisualPath = <<>>
    /\ slTotalFilament = 0 /\ slTotalTime = 0 /\ slCurrentPos = Pt(0, 0, 0)
    /\ slLayerIdx = 0 /\ slEmitPc = "layer" /\ slLoopIdx = 0 /\ slPointIdx = 0
    /\ slPrev = NoRun
    /\ AppIdle
    /\ gcLines \in SeqsUpTo(GcodeLineSet, MaxGcodeLines)
    /\ gcIdx = 0 /\ gcPoints = <<>>
    /\ gcCurrentPos = GcStart.pos /\ gcCurrentFeedrate = GcStart.feedrate
    /\ gcTotalTime = 0 /\ gcTotalFilament = GcStart.totalFilament
    /\ gcIsRelative = FALSE /\ gcIsExtruderRelative = FALSE
    /\ gcMin = Pt(PosInf, PosInf, PosInf) /\ gcMax = Pt(NegInf, NegInf, NegInf)
    /\ gcPc = "parsing"
GcNext == GcodeLine \/ GcodeReturn
SpecGcode == InitGcode /\ [][GcNext]_vars

\* the App with a path of 0 to MaxPathLength points loaded, playback stopped at
\* index 0; the interval fires for as long as it is set
InitPlayback ==
    /\ stlBuf = IdleBuf /\ stlPc = "idle" /\ stlTriangles = <<>>
    /\ ixTri = IdleTri /\ ixZ = 0 /\ ixPc = "idle" /\ ixResult = NoSegment
    /\ chSegments = <<>> /\ chPool = <<>> /\ chLoop = <<>> /\ chLoops = <<>> /\ chPc = "idle"
    /\ chBuilt = <<>>
    /\ slMesh = <<>> /\ slTransform = IdleTransform /\ slSettings = IdleSettings
    /\ slPc = "idle" /\ slTriangles = <<>> /\ slMinZ = 0 /\ slMaxZ = 0 /\ slZ = 0
    /\ slLayers = <<>> /\ slLines = <<>> /\ slVisualPath = <<>>
    /\ slTotalFilament = 0 /\ slTotalTime = 0 /\ slCurrentPos = Pt(0, 0, 0)
    /\ slLayerIdx = 0 /\ slEmitPc = "layer" /\ slLoopIdx = 0 /\ slPointIdx = 0
    /\ slPrev = NoRun
    /\ GcIdle
    /\ simPath \in 0..MaxPathLength
    /\ isPlaying = FALSE /\ playbackIndex = 0
    /\ playbackSpeed = 10
PlaybackNext == Tick \/ TogglePlay \/ SkipBack \/ SkipForward \/ Scrub \/ SetPlaybackSpeed
SpecPlayback == InitPlayback /\ [][PlaybackNext]_vars /\ WF_vars(Tick)

\* chainSegments run to its end: the call is not suspended (it is synchronous,
\* single-threaded code), so a step that can be taken is taken
SpecChainLive == InitChain /\ [][ChNext]_vars /\ WF_vars(ChNext)

\* sliceMesh on the meshes, transforms and settings of SlMeshes, SlTransforms, SlSettingsSet
Init ==
    /\ stlBuf = IdleBuf /\ stlPc = "idle" /\ stlTriangles = <<>>
    /\ ixTri = IdleTri /\ ixZ = 0 /\ ixPc = "idle" /\ ixResult = NoSegment
    /\ chSegments = <<>> /\ chPool = <<>> /\ chLoop = <<>> /\ chLoops = <<>> /\ chPc = "idle"
    /\ chBuilt = <<>>
    /\ slMesh \in SlMeshes /\ slTransform \in SlTransforms /\ slSettings \in SlSettingsSet
    /\ slPc = "start" /\ slTriangles = <<>> /\ slMinZ = 0 /\ slMaxZ = 0 /\ slZ = 0
    /\ slLayers = <<>> /\ slLines = <<>> /\ slVisualPath = <<>>
    /\ slTotalFilament = 0 /\ slTotalTime = 0 /\ slCurrentPos = Pt(0, 0, 0)
    /\ slLayerIdx = 0 /\ slEmitPc = "layer" /\ slLoopIdx = 0 /\ slPointIdx = 0
    /\ slPrev = NoRun
    /\ GcIdle /\ AppIdle
Next ==
    \/ SliceStart \/ SliceLayer \/ SliceEmitStart
    \/ SliceEmitSkipLayer \/ SliceEmitZMove \/ SliceEmitTravel \/ SliceEmitExtrude
    \/ SliceEmitLoopEnd \/ SliceEmitLayerEnd
    \/ SliceReturn
Spec == Init /\ [][Next]_vars

\* sliceMesh called twice with the same arguments
SlRerunMeshes == {TetraMesh, OpenMesh, <<>>}
SlRerunTransforms == {t \in SlTransforms : t.scale = 1000 /\ t.rotation = 0}
SlRerunSettings == {st \in SlSettingsSet : st.layerHeight \in {1000, 2400}}
InitRerun ==
    /\ stlBuf = IdleBuf /\ stlPc = "idle" /\ stlTriangles = <<>>
    /\ ixTri = IdleTri /\ ixZ = 0 /\ ixPc = "idle" /\ ixResult = NoSegment
    /\ chSegments = <<>> /\ chPool = <<>> /\ chLoop = <<>> /\ chLoops = <<>> /\ chPc = "idle"
    /\ chBuilt = <<>>
    /\ slMesh \in SlRerunMeshes /\ slTransform \in SlRerunTransforms
    /\ slSettings \in SlRerunSettings
    /\ slPc = "start" /\ slTriangles = <<>> /\ slMinZ = 0 /\ slMaxZ = 0 /\ slZ = 0
    /\ slLayers = <<>> /\ slLines = <<>> /\ slVisualPath = <<>>
    /\ slTotalFilament = 0 /\ slTotalTime = 0 /\ slCurrentPos = Pt(0, 0, 0)
    /\ slLayerIdx = 0 /\ slEmitPc = "layer" /\ slLoopIdx = 0 /\ slPointIdx = 0
    /\ slPrev = NoRun
    /\ GcIdle /\ AppIdle
RerunNext ==
    \/ SliceStart \/ SliceLayer \/ SliceEmitStart
    \/ SliceEmitSkipLayer \/ SliceEmitZMove \/ SliceEmitTravel \/ SliceEmitExtrude
    \/ SliceEmitLoopEnd \/ SliceEmitLayerEnd
    \/ SliceReturn \/ SliceAgain
SpecRerun == InitRerun /\ [][RerunNext]_vars

\* sliceMesh up to the end of its layer loop, with layer heights of either
\* sign and none, for as long as the loop goes on: the call is synchronous, so
\* a step that can be taken is taken
SlLoopMeshes == {OpenMesh, <<>>}
SlLoopTransforms == {t \in SlTransforms : t.x = 0 /\ t.rotation = 0}
SlLoopSettings ==
    [ filamentDiameter : {1750}, nozzleDiameter : {400},
      layerHeight : {-1000, -200, 0, 200, 1000, 2400},
      temperature : {200}, travelSpeed : {3000}, printSpeed : {1500} ]
InitLoop ==
    /\ stlBuf = IdleBuf /\ stlPc = "idle" /\ stlTriangles = <<>>
    /\ ixTri = IdleTri /\ ixZ = 0 /\ ixPc = "idle" /\ ixResult = NoSegment
    /\ chSegments = <<>> /\ chPool = <<>> /\ chLoop = <<>> /\ chLoops = <<>> /\ chPc = "idle"
    /\ chBuilt = <<>>
    /\ slMesh \in SlLoopMeshes /\ slTransform \in SlLoopTransforms
    /\ slSettings \in SlLoopSettings
    /\ slPc = "start" /\ slTriangles = <<>> /\ slMinZ = 0 /\ slMaxZ = 0 /\ slZ = 0
    /\ slLayers = <<>> /\ slLines = <<>> /\ slVisualPath = <<>>
    /\ slTotalFilament = 0 /\ slTotalTime = 0 /\ slCurrentPos = Pt(0, 0, 0)
    /\ slLayerIdx = 0 /\ slEmitPc = "layer" /\ slLoopIdx = 0 /\ slPointIdx = 0
    /\ slPrev = NoRun
    /\ GcIdle /\ AppIdle
LoopNext == SliceStart \/ SliceLayer \/ SliceEmitStart
SpecLoop == InitLoop /\ [][LoopNext]_vars /\ WF_vars(LoopNext)

-----------------------------------------------------------------------------
(* Properties of parseSTL (SpecSTL) *)

\* the record of the file at 0-based position k, as laid out in the format:
\* 84 bytes, then records of 50 bytes: normal, p1, p2, p3, two unused bytes
FileFloat(buf, k, field) == buf.seed + 84 + 50 * k + 4 * field
FileRecord(buf, k) ==
    [ normal |-> Pt(FileFloat(buf, k, 0), FileFloat(buf, k, 1), FileFloat(buf, k, 2)),
      p1 |-> Pt(FileFloat(buf, k, 3), FileFloat(buf, k, 4), FileFloat(buf, k, 5)),
      p2 |-> Pt(FileFloat(buf, k, 6), FileFloat(buf, k, 7), FileFloat(buf, k, 8)),
      p3 |-> Pt(FileFloat(buf, k, 9), FileFloat(buf, k, 10), FileFloat(buf, k, 11)) ]

\* C1: a call of parseSTL that returns gives exactly min(declared count, 25000)
\* triangles, element i being record i of the file; a declared count of 30000
\* gives no more than 25000.
C1_ParseSTLCountAndOrder ==
    stlPc = "returned" =>
        /\ Len(stlTriangles) = (IF stlBuf.count < 25000 THEN stlBuf.count ELSE 25000)
        /\ \A i \in 1..Len(stlTriangles) : stlTriangles[i] = FileRecord(stlBuf, i - 1)
        /\ (stlBuf.count = 30000 => Len(stlTriangles) <= 25000)

C1_Witness ==
    /\ stlPc = "returned"
    /\ stlBuf.count = 30000
    /\ Len(stlTriangles) = 25000
    /\ stlTriangles[25000] = FileRecord(stlBuf, 24999)

\* the buffer has its 84-byte prefix but fewer than min(declared, 25000) whole records
StlTruncated(buf) ==
    /\ buf.len >= 84
    /\ buf.len < 84 + 50 * (IF buf.count < 25000 THEN buf.count ELSE 25000)

\* C2 (as claimed): on a truncated buffer parseSTL reports no failure.
C2_TruncatedReportsNoFailure ==
    StlTruncated(stlBuf) => stlPc # "threw"

-----------------------------------------------------------------------------
(* Properties of intersectTriangleZ (SpecIntersect) *)

HasSegment(r) == r # NoSegment

IxVerts == <<ixTri.p1, ixTri.p2, ixTri.p3>>

\* all three vertices on one side, a vertex on the plane counting as above
IxAllOneSide ==
    \/ \A i \in 1..3 : IxVerts[i].z >= ixZ
    \/ \A i \in 1..3 : IxVerts[i].z < ixZ

\* C4: intersectTriangleZ returns none exactly when the three vertices are on
\* one side of the plane (Z >= z above, Z < z below); so it returns none when
\* all are strictly above or all strictly below.
C4_NoneIffOneSide ==
    ixPc = "returned" =>
        /\ (ixResult = NoSegment) <=> IxAllOneSide
        /\ ((\A i \in 1..3 : IxVerts[i].z > ixZ) => ixResult = NoSegment)
        /\ ((\A i \in 1..3 : IxVerts[i].z < ixZ) => ixResult = NoSegment)

\* a vertex exactly on the plane, the other two below: a segment is returned
C4_Witness ==
    /\ ixPc = "returned"
    /\ ixTri.p1.z = ixZ /\ ixTri.p2.z < ixZ /\ ixTri.p3.z < ixZ
    /\ HasSegment(ixResult)

\* vertex i is alone on its side of the plane
IxIsolated(i) ==
    \A j \in (1..3) \ {i} : (IxVerts[j].z >= ixZ) # (IxVerts[i].z >= ixZ)

\* q is the point of the edge a-b at height z, each coordinate within half a
\* unit of the exact interpolation a + (z - a.z)/(b.z - a.z) * (b - a); where
\* the plane is halfway between a and b, q is their exact X/Y midpoint
OnEdgeAt(q, a, b, z) ==
    /\ q.z = z
    /\ 2 * Abs((q.x - a.x) * (b.z - a.z) - (z - a.z) * (b.x - a.x)) <= Abs(b.z - a.z)
    /\ 2 * Abs((q.y - a.y) * (b.z - a.z) - (z - a.z) * (b.y - a.y)) <= Abs(b.z - a.z)
    /\ (2 * (z - a.z) = b.z - a.z => 2 * q.x = a.x + b.x /\ 2 * q.y = a.y + b.y)

\* C5: a returned segment comes with exactly one isolated vertex, and its two
\* endpoints are the interpolations along the edges from that vertex to the
\* other two (in vertex order), at Z exactly z.
C5_SegmentInterpolatesEdges ==
    (ixPc = "returned" /\ HasSegment(ixResult)) =>
        /\ Cardinality({i \in 1..3 : IxIsolated(i)}) = 1
        /\ \A i \in 1..3 : IxIsolated(i) =>
              LET others == SelectSeq(<<1, 2, 3>>, LAMBDA j : j # i)
              IN  /\ OnEdgeAt(ixResult.start, IxVerts[i], IxVerts[others[1]], ixZ)
                  /\ OnEdgeAt(ixResult.end, IxVerts[i], IxVerts[others[2]], ixZ)

\* vertices at Z = 0, 0, 10 cut at Z = 5: the midpoints of the two crossing edges
C5_Witness ==
    /\ ixPc = "returned"
    /\ ixZ = 5000
    /\ ixTri.p1 = Pt(0, 0, 0) /\ ixTri.p2 = Pt(10000, 0, 0) /\ ixTri.p3 = Pt(10000, 10000, 10000)
    /\ HasSegment(ixResult)
    /\ ixResult.start = Pt(5000, 5000, 5000)
    /\ ixResult.end = Pt(10000, 5000, 5000)

\* the vertices lying exactly in the plane, in vertex order
IxOnPlane == SelectSeq(IxVerts, LAMBDA p : p.z = ixZ)

\* the triangle has an edge lying in the plane: exactly two vertices on it
IxEdgeInPlane == Len(IxOnPlane) = 2

IxFinitePoint(p) == IsFinite(p.x) /\ IsFinite(p.y) /\ IsFinite(p.z)

\* C16 (as claimed): an edge in the plane is divided along (z1 = z0), so a
\* segment returned for such a triangle has a non-finite coordinate.
C16_InPlaneEdgeNonFinite ==
    (ixPc = "returned" /\ IxEdgeInPlane /\ HasSegment(ixResult)) =>
        ~(IxFinitePoint(ixResult.start) /\ IxFinitePoint(ixResult.end))

\* C16 (amended): no returned segment has a non-finite coordinate; for a
\* triangle with an edge in the plane the result is none when the third vertex
\* is above the plane, and when it is below, the segment from one vertex of
\* that edge to the other, in vertex order.
C16_InPlaneEdgeFinite ==
    ixPc = "returned" =>
        /\ (HasSegment(ixResult) =>
               IxFinitePoint(ixResult.start) /\ IxFinitePoint(ixResult.end))
        /\ (IxEdgeInPlane =>
               IF \E i \in 1..3 : IxVerts[i].z < ixZ
                 THEN ixResult = [start |-> IxOnPlane[1], end |-> IxOnPlane[2]]
                 ELSE ixResult = NoSegment)

\* an edge in the plane at Z = 10, the third vertex below: the edge is returned
C16_Witness ==
    /\ ixPc = "returned"
    /\ ixZ = 10000
    /\ IxEdgeInPlane
    /\ IxOnPlane[1] # IxOnPlane[2]
    /\ HasSegment(ixResult)
    /\ ixResult.start = IxOnPlane[1] /\ ixResult.end = IxOnPlane[2]

-----------------------------------------------------------------------------
(* Properties of chainSegments (SpecChain) *)

LoopClosed(loop) == loop[Len(loop)] = loop[1]

\* C6 (as claimed): every loop returned by chainSegments is closed.
C6_EveryLoopClosed ==
    \A i \in 1..Len(chLoops) : LoopClosed(chLoops[i])

\* C7: every loop in loops has more than 2 points, and the step that ends an
\* iteration adds the chain it built exactly when it has more than 2 points:
\* a chain of exactly 2 points is never added; no other step changes loops.
C7_LoopsLongerThanTwo ==
    /\ [](\A i \in 1..Len(chLoops) : Len(chLoops[i]) > 2)
    /\ [][ IF chPc = "growing" /\ chPc' = "chaining"
             THEN chLoops' = IF Len(chLoop') > 2 THEN Append(chLoops, chLoop') ELSE chLoops
             ELSE chLoops' = chLoops ]_vars

\* a 3-point chain was kept, then a lone segment gave a 2-point chain, dropped
C7_Witness ==
    /\ chPc = "returned"
    /\ Len(chSegments) = 3
    /\ Len(chLoop) = 2
    /\ chLoop[1] # chLoop[2]
    /\ Len(chLoops) = 1


\* the step absorbs a segment: the inner loop goes on with a longer chain
ChAbsorbs == chPc = "growing" /\ chPc' = "growing" /\ chLoop' # chLoop

\* the step ends the growth of a chain
ChStopsGrowing == chPc = "growing" /\ chPc' = "chaining"

\* C18: a step that absorbs a segment removes one segment from the pool and
\* appends its endpoint other than the one that matched the tail: its end if
\* its start is within EPSILON of the tail, otherwise its start, its end then
\* being within EPSILON; and growth stops only when no segment of the pool
\* has either endpoint within EPSILON of the tail.
C18_AbsorbAppendsOtherEnd ==
    [][ /\ ChAbsorbs =>
             \E idx \in 1..Len(chPool) :
                LET seg == chPool[idx]
                    tail == chLoop[Len(chLoop)]
                IN  /\ chPool' = RemoveAt(chPool, idx)
                    /\ IF Near(seg.start, tail, EPSILON)
                         THEN chLoop' = Append(chLoop, seg.end)
                         ELSE /\ Near(seg.end, tail, EPSILON)
                              /\ chLoop' = Append(chLoop, seg.start)
        /\ ChStopsGrowing =>
             \A idx \in 1..Len(chPool) :
                /\ ~Near(chPool[idx].start, chLoop[Len(chLoop)], EPSILON)
                /\ ~Near(chPool[idx].end, chLoop[Len(chLoop)], EPSILON) ]_vars

\* a segment met by its end has been absorbed, and its start appended
C18_Witness ==
    /\ chPc = "growing"
    /\ chSegments = << [start |-> Pt(30, 100, 200), end |-> Pt(30, 0, 200)],
                       [start |-> Pt(80, 0, 200), end |-> Pt(0, 0, 200)] >>
    /\ chPool = <<>>
    /\ chLoop = << Pt(80, 0, 200), Pt(0, 0, 200), Pt(30, 100, 200) >>


\* C19: the step that ends the growth of a chain replaces its last point by
\* its first when the two are within 2*EPSILON (less than 0.1 mm apart in
\* X,Y), the other points and the length staying as they are, and leaves the
\* chain unchanged otherwise.
C19_ClosureSnapsTail ==
    [][ ChStopsGrowing =>
          /\ Len(chLoop') = Len(chLoop)
          /\ \A k \in 1..(Len(chLoop) - 1) : chLoop'[k] = chLoop[k]
          /\ chLoop'[Len(chLoop)] =
                IF Near(chLoop[1], chLoop[Len(chLoop)], 2 * EPSILON)
                  THEN chLoop[1] ELSE chLoop[Len(chLoop)] ]_vars

\* a chain that stopped 0.08 mm from its head was closed, and then a chain
\* whose two points are exactly 0.1 mm apart was left as it was
C19_Witness ==
    /\ chPc = "returned"
    /\ Len(chSegments) = 3 /\ chSegments[1].end = Pt(80, 0, 200)
    /\ chLoops = << << Pt(0, 0, 200), Pt(30, 100, 200), Pt(0, 0, 200) >> >>
    /\ chLoop = << Pt(30, 100, 200), Pt(30, 0, 200) >>


\* the step seeds a new chain
ChSeeds == chPc = "chaining" /\ chPc' = "growing"

\* the pool without its element at idx
ChPoolWithout(idx) ==
    [k \in 1..(Len(chPool) - 1) |-> IF k < idx THEN chPool[k] ELSE chPool[k + 1]]

\* the indices of the pool segments with an endpoint within EPSILON of the tail
ChCandidates ==
    { k \in 1..Len(chPool) :
        \/ Near(chPool[k].start, chLoop[Len(chLoop)], EPSILON)
        \/ Near(chPool[k].end, chLoop[Len(chLoop)], EPSILON) }

\* C20: a new chain is seeded with the last segment of the pool, which leaves
\* the pool; a step that absorbs takes, among the pool segments with an
\* endpoint within EPSILON of the tail, the one with the lowest index.
C20_PoolOrderDecides ==
    [][ /\ ChSeeds =>
             /\ chLoop' = <<chPool[Len(chPool)].start, chPool[Len(chPool)].end>>
             /\ chPool' = ChPoolWithout(Len(chPool))
        /\ ChAbsorbs =>
             /\ ChCandidates # {}
             /\ \E m \in ChCandidates :
                   /\ \A k \in ChCandidates : m <= k
                   /\ chPool' = ChPoolWithout(m)
                   /\ chLoop'[Len(chLoop')] \in {chPool[m].start, chPool[m].end} ]_vars

\* two pool segments met the tail (0, 0); the one at index 1 was absorbed and
\* the one at index 2 is still in the pool
C20_Witness ==
    /\ chPc = "growing"
    /\ chSegments = << [start |-> Pt(0, 0, 200), end |-> Pt(80, 0, 200)],
                       [start |-> Pt(30, 0, 200), end |-> Pt(30, 100, 200)],
                       [start |-> Pt(30, 100, 200), end |-> Pt(0, 0, 200)] >>
    /\ chLoop = << Pt(30, 100, 200), Pt(0, 0, 200), Pt(80, 0, 200) >>
    /\ chPool = << [start |-> Pt(30, 0, 200), end |-> Pt(30, 100, 200)] >>

-----------------------------------------------------------------------------
(* Properties of sliceMesh (Spec) *)

\* the Z of the layer at 1-based position i of layers
LayerZAt(i) == slMinZ + 200 + (i - 1) * slSettings.layerHeight

\* minZ + 0.2 > maxZ, the sentinel bounds of the empty mesh included
SlNoRoom == slMinZ = PosInf \/ slMinZ + 200 > slMaxZ

\* C3: if minZ + 0.2 > maxZ (the empty mesh, of bounds (+inf, -inf), included)
\* sliceMesh makes no layer, and returns the preamble followed by the
\* postamble, zero totals and no visualization point.
C3_NoRoomNoLayers ==
    /\ (slPc # "start" /\ slPc # "idle" /\ slMesh = <<>>
          => slMinZ = PosInf /\ slMaxZ = NegInf)
    /\ (slPc = "done" /\ SlNoRoom =>
          /\ slLayers = <<>>
          /\ slLines = << [cmd |-> "; Generated by DeltaSim Pro Slicer"],
                          [cmd |-> "M104", S |-> slSettings.temperature],
                          [cmd |-> "G28"],
                          [cmd |-> "M109", S |-> slSettings.temperature],
                          [cmd |-> "G90"],
                          [cmd |-> "G92", E |-> 0],
                          [cmd |-> "M104", S |-> 0],
                          [cmd |-> "G28"],
                          [cmd |-> "M84"] >>
          /\ slTotalTime = 0
          /\ slTotalFilament = 0
          /\ slVisualPath = <<>>)

\* a mesh thinner than the lift has been sliced
C3_Witness ==
    /\ slPc = "done"
    /\ slMesh = CubeMesh
    /\ slMaxZ - slMinZ = 100
    /\ Len(slLines) = 9

IsClosedConvex == slMesh \in ClosedConvexMeshes

\* the edges of the transformed mesh, as pairs of vertices
MeshEdges ==
    UNION { { {slTriangles[i].p1, slTriangles[i].p2},
              {slTriangles[i].p2, slTriangles[i].p3},
              {slTriangles[i].p1, slTriangles[i].p3} } : i \in 1..Len(slTriangles) }

MeshVertexZs == UNION { {p.z : p \in e} : e \in MeshEdges }

\* the plane at z cuts the edge: an end below it, an end on or above it
EdgeCut(e, z) == (\E a \in e : a.z < z) /\ (\E b \in e : b.z >= z)

EdgesCut(z) == Cardinality({e \in MeshEdges : EdgeCut(e, z)})

\* the plane at z holds no vertex of the mesh
GenericPlane(z) == z \notin MeshVertexZs

\* the point where the plane at z cuts the edge e
CutPoint(e, z) ==
    LET a == CHOOSE a \in e : a.z < z
        b == CHOOSE b \in e : b.z >= z
    IN  IntersectEdge(a, b, z)

\* the points cut on different edges are 2*EPSILON or more apart in X,Y
CutsApart(z) ==
    \A e1, e2 \in {e \in MeshEdges : EdgeCut(e, z)} :
        e1 # e2 => ~Near(CutPoint(e1, z), CutPoint(e2, z), 2 * EPSILON)

\* C8 (as claimed): a cut of a closed convex mesh gives exactly one loop, with
\* as many points as edges cut, and closed.
C8_OneLoopOnePointPerEdge ==
    IsClosedConvex =>
        \A i \in 1..Len(slLayers) :
            /\ Len(slLayers[i]) = 1
            /\ Len(slLayers[i][1]) = EdgesCut(LayerZAt(i))
            /\ LoopClosed(slLayers[i][1])

\* C8 (amended): a cut of a closed convex mesh by a plane that holds no vertex
\* and cuts the edges at points 2*EPSILON or more apart gives exactly one
\* loop, closed, with one point per edge cut plus the closing point, which
\* repeats the first.  Stated of the layers of a finished run.
C8_OneLoopClosedOverEdges ==
    (IsClosedConvex /\ slPc = "done") =>
        \A i \in 1..Len(slLayers) :
            (GenericPlane(LayerZAt(i)) /\ CutsApart(LayerZAt(i))) =>
                /\ Len(slLayers[i]) = 1
                /\ Len(slLayers[i][1]) = EdgesCut(LayerZAt(i)) + 1
                /\ LoopClosed(slLayers[i][1])

C8_Witness ==
    /\ slPc = "done"
    /\ slMesh = TetraMesh
    /\ slTransform.scale = 1000
    /\ Len(slLayers) >= 2
    /\ GenericPlane(LayerZAt(2)) /\ CutsApart(LayerZAt(2))
    /\ EdgesCut(LayerZAt(2)) = 3
    /\ Len(slLayers[2]) = 1
    /\ Len(slLayers[2][1]) = 4


\* the unit cube, not scaled, sliced with layerHeight = 1
CubeRun ==
    /\ slMesh = CubeMesh
    /\ slTransform.scale = 1000
    /\ slSettings.layerHeight = 1000
    /\ slPc \in {"emit", "done"}

\* the corners of the cube's square cross-section at height z
CubeCorners(z) ==
    { Pt(slTransform.x + i * 10000, slTransform.y + j * 10000, z) : i, j \in {0, 1} }

LoopPoints(loop) == {loop[n] : n \in 1..Len(loop)}

\* p lies on the boundary of the cube's cross-section
OnCubeOutline(p) ==
    LET u == p.x - slTransform.x
        v == p.y - slTransform.y
    IN  /\ u \in 0..10000 /\ v \in 0..10000
        /\ (u = 0 \/ u = 10000 \/ v = 0 \/ v = 10000)

\* the loops of layer i are one closed loop through the 4 corners of the square
OneSquareLoop(i) ==
    /\ Len(slLayers[i]) = 1
    /\ LoopClosed(slLayers[i][1])
    /\ CubeCorners(LayerZAt(i)) \subseteq LoopPoints(slLayers[i][1])
    /\ \A p \in LoopPoints(slLayers[i][1]) : OnCubeOutline(p)

\* C9 (as claimed): the cube sliced with layerHeight = 1 gives exactly one
\* layer, holding one closed loop with the 4 corners of the square.
C9_CubeOneLayerOneLoop ==
    CubeRun => Len(slLayers) = 1 /\ OneSquareLoop(1)

\* C9 (amended): the cube of side 10 sliced with layerHeight = 1 gives 10
\* layers, at 0.2, 1.2, ..., 9.2 above its base; each of them, the two next
\* to mid-height included, holds exactly one closed loop, of 9 points: the
\* 4 corners of the square, the 4 points where the plane cuts the diagonals
\* of the side faces, and the closing point.
C9_CubeTenLayersOneLoopEach ==
    CubeRun =>
        /\ Len(slLayers) = 10
        /\ \A i \in 1..10 :
              /\ OneSquareLoop(i)
              /\ Len(slLayers[i][1]) = 9
              /\ Cardinality(LoopPoints(slLayers[i][1])) = 8

C9_Witness ==
    /\ CubeRun
    /\ slPc = "done"
    /\ slTransform.x = 0 /\ slTransform.z = 0
    /\ Len(slLayers) = 10
    /\ slLayers[6][1][4] = Pt(0, 0, 5200)
    /\ OneSquareLoop(6)


-----------------------------------------------------------------------------
(* Properties of the emission pass of sliceMesh (Spec) *)

IsZMove(l) == l.cmd = "G1" /\ "Z" \in DOMAIN l /\ "X" \notin DOMAIN l
IsTravel(l) == l.cmd = "G0"
IsExtrude(l) == l.cmd = "G1" /\ "X" \in DOMAIN l

\* the Z-move lines emitted so far, in order
ZMoves == SelectSeq(slLines, IsZMove)

\* C11: the Z of successive Z-move lines strictly increases, and the Z of
\* successive visualization points never decreases.
C11_LayersInIncreasingZ ==
    /\ \A i \in 1..(Len(ZMoves) - 1) : ZMoves[i].Z < ZMoves[i + 1].Z
    /\ \A i \in 1..(Len(slVisualPath) - 1) : slVisualPath[i].z <= slVisualPath[i + 1].z

\* a finished run with several Z moves, its path going from one layer up to the next
C11_Witness ==
    /\ slPc = "done"
    /\ Len(ZMoves) >= 3
    /\ ZMoves[1].Z < ZMoves[2].Z
    /\ \E i \in 1..(Len(slVisualPath) - 1) : slVisualPath[i].z < slVisualPath[i + 1].z


\* C12: during the emission pass no step (Z move, travel move, extruding
\* move, or a step that emits nothing) lowers totalFilament or totalTime.
\* All settings of the model have positive speeds, diameters and layer height.
C12_TotalsNeverDecrease ==
    [][ (slPc = "emit" /\ slSettings.travelSpeed > 0 /\ slSettings.printSpeed > 0
           /\ slSettings.filamentDiameter > 0 /\ slSettings.nozzleDiameter > 0
           /\ slSettings.layerHeight > 0)
        => (slTotalFilament' >= slTotalFilament /\ slTotalTime' >= slTotalTime) ]_vars

\* a run on a model placed below the bed: its first Z move goes down from
\* currentPos.z = 0, and travel and extruding moves have been timed
C12_Witness ==
    /\ slPc = "done"
    /\ slMinZ + FirstLayerLift < 0
    /\ slTotalTime > 0
    /\ slTotalFilament > 0
    /\ \E i \in 1..Len(slLines) : IsTravel(slLines[i])


\* the positions of the G0 and G1 X/Y/E lines, in order
MoveLineIdx ==
    LET isMove(k) == IsTravel(slLines[k]) \/ IsExtrude(slLines[k])
    IN  SelectSeq([k \in 1..Len(slLines) |-> k], isMove)

\* the Z of the last Z move before line k (NegInf when there is none)
LastZBefore(k) ==
    LET zs == { j \in 1..(k - 1) : IsZMove(slLines[j]) }
    IN  IF zs = {} THEN NegInf
        ELSE slLines[CHOOSE j \in zs : \A m \in zs : m <= j].Z

\* The lines agree with the visualization points: the i-th G0 or G1 X/Y/E
\* line has the i-th point, with its X and Y and with the Z of the last Z
\* move before it, and no other line has one.
PathMatches ==
    /\ Len(slVisualPath) = Len(MoveLineIdx)
    /\ \A i \in 1..Len(MoveLineIdx) :
          LET k == MoveLineIdx[i]
          IN  slVisualPath[i] = Pt(slLines[k].X, slLines[k].Y, LastZBefore(k))

IsScaledMoved(q, v, t) ==
    /\ 2 * Abs(1000 * (q.x - t.x) - v.x * t.scale) <= 1000
    /\ 2 * Abs(1000 * (q.y - t.y) - v.y * t.scale) <= 1000
    /\ 2 * Abs(1000 * (q.z - t.z) - v.z * t.scale) <= 1000

\* C15: each vertex of each transformed triangle is the vertex times scale plus
\* the transform's (x, y, z), the normal is the one given, and nothing depends
\* on the rotation field (the runs of the model differ in it).
C15_TransformScalesAndMoves ==
    slPc # "start" =>
        /\ Len(slTriangles) = Len(slMesh)
        /\ \A i \in 1..Len(slMesh) :
              /\ IsScaledMoved(slTriangles[i].p1, slMesh[i].p1, slTransform)
              /\ IsScaledMoved(slTriangles[i].p2, slMesh[i].p2, slTransform)
              /\ IsScaledMoved(slTriangles[i].p3, slMesh[i].p3, slTransform)
              /\ slTriangles[i].normal = slMesh[i].normal

\* the tetrahedron halved, moved and with a rotation of 90 asked for
C15_Witness ==
    /\ slPc = "slicing"
    /\ slMesh = TetraMesh
    /\ slTransform = [x |-> 200, y |-> 0, z |-> -300, scale |-> 500, rotation |-> 90]
    /\ slTriangles[2].p3 = Pt(1700, 1500, 4200)
    /\ slTriangles[2].normal = Pt(0, -1, 0)

\* the plane at z lies under the lowest or over the highest vertex of tri
OutsideExtent(tri, z) ==
    \/ \A p \in {tri.p1, tri.p2, tri.p3} : z < p.z
    \/ \A p \in {tri.p1, tri.p2, tri.p3} : z > p.z

\* the segments of the plane at z, intersectTriangleZ asked for every triangle
UnculledSegments(z) ==
    SelectSeq([n \in 1..Len(slTriangles) |-> IntersectTriangleZ(slTriangles[n], z)],
              HasSegment)

\* C17: for every layer of a finished run, intersectTriangleZ gives none for
\* every triangle whose extent the plane lies outside, and the layer's
\* contours are those of the segments collected without the cull.
C17_CullChangesNothing ==
    slPc = "done" =>
        \A i \in 1..Len(slLayers) :
            /\ \A n \in 1..Len(slTriangles) :
                  OutsideExtent(slTriangles[n], LayerZAt(i)) =>
                      IntersectTriangleZ(slTriangles[n], LayerZAt(i)) = NoSegment
            /\ slLayers[i] = (IF UnculledSegments(LayerZAt(i)) = <<>> THEN <<>>
                              ELSE ChainSegments(UnculledSegments(LayerZAt(i))))

\* a run whose last layer lies in the top face of the cube: the side triangles
\* touch the plane and are cut, the bottom ones lie under it
C17_Witness ==
    /\ slPc = "done"
    /\ slMesh = CubeMesh
    /\ Len(slLayers) >= 2
    /\ LayerZAt(Len(slLayers)) = slMaxZ
    /\ slLayers[Len(slLayers)] # <<>>
    /\ \E n \in 1..Len(slTriangles) : OutsideExtent(slTriangles[n], slMaxZ)
    /\ \E n \in 1..Len(slTriangles) :
          /\ ~OutsideExtent(slTriangles[n], slMaxZ)
          /\ IntersectTriangleZ(slTriangles[n], slMaxZ) # NoSegment

-----------------------------------------------------------------------------
(* Properties of repeated calls of sliceMesh (SpecRerun) *)

\* C13: a second call of sliceMesh with the same triangles, transform and
\* settings returns the same lines, the same totals and the same
\* visualization points as the first, whatever the first left behind.
C13_SecondRunSameOutput ==
    (slPc = "done" /\ slPrev # NoRun) => SliceResult = slPrev

\* the second of two calls has returned, with layers, moves and totals
C13_Witness ==
    /\ slPc = "done"
    /\ slPrev # NoRun
    /\ Len(slPrev.paths) > 0
    /\ slPrev.gcode.totalFilament > 0
    /\ Len(slLayers) >= 2
    /\ Len(slLines) > 9


-----------------------------------------------------------------------------
(* Properties of the emission pass of sliceMesh (Spec), continued *)

\* the positions in layers (1-based) of the layers with at least one loop
NonEmptyLayerIdx ==
    LET hasLoops(k) == slLayers[k] # <<>>
    IN  SelectSeq([k \in 1..Len(slLayers) |-> k], hasLoops)

\* the positions in gcodeLines of the Z moves
ZMoveLineIdx ==
    LET isZ(k) == IsZMove(slLines[k])
    IN  SelectSeq([k \in 1..Len(slLines) |-> k], isZ)

\* the number of points after the first over the loops of a layer
LayerExtrusions(loops) ==
    Cardinality(UNION { {l} \X (2..Len(loops[l])) : l \in 1..Len(loops) })

\* the lines from the n-th Z move to the comment of the next (or the postamble)
LayerLinesAfter(n) ==
    LET last == IF n < Len(ZMoveLineIdx) THEN ZMoveLineIdx[n + 1] - 2
                ELSE Len(slLines) - Len(Postamble)
    IN  (ZMoveLineIdx[n] + 1)..last

\* C21: in the returned G-code there is one Z move per layer with loops, in
\* layer order; the n-th of them has the Z of its layer, minZ + 0.2 +
\* i * layerHeight with i the layer's index among all layers, empty ones
\* included; it follows its layer's comment, and the lines after it up to the
\* next layer's comment (or the postamble) are that layer's moves: travel and
\* extruding moves only, one extruding move per loop point after the first
\* and at most one travel per loop.  A layer without loops has no line:
\* the first comment directly follows the preamble.
C21_OneZMovePerNonEmptyLayer ==
    slPc = "done" =>
        /\ Len(ZMoveLineIdx) = Len(NonEmptyLayerIdx)
        /\ Len(ZMoveLineIdx) > 0 => ZMoveLineIdx[1] = Len(Preamble(slSettings)) + 2
        /\ Len(ZMoveLineIdx) = 0 =>
               Len(slLines) = Len(Preamble(slSettings)) + Len(Postamble)
        /\ \A n \in 1..Len(ZMoveLineIdx) :
              LET p == ZMoveLineIdx[n]
                  k == NonEmptyLayerIdx[n]
                  layerZ == AddF(slMinZ, FirstLayerLift) + (k - 1) * slSettings.layerHeight
                  moves == LayerLinesAfter(n)
              IN  /\ slLines[p].Z = layerZ
                  /\ slLines[p - 1].cmd = "; --- Layer"
                  /\ slLines[p - 1].n = k
                  /\ \A m \in moves : IsTravel(slLines[m]) \/ IsExtrude(slLines[m])
                  /\ Cardinality({m \in moves : IsExtrude(slLines[m])})
                        = LayerExtrusions(slLayers[k])
                  /\ Cardinality({m \in moves : IsTravel(slLines[m])}) <= Len(slLayers[k])

\* a finished run with a layer without loops under a layer with loops
C21_Witness ==
    /\ slPc = "done"
    /\ Len(NonEmptyLayerIdx) >= 2
    /\ NonEmptyLayerIdx[1] > 1
    /\ \E i \in 1..Len(slLayers) : \E j \in 1..Len(slLayers) :
          i < j /\ slLayers[i] = <<>> /\ slLayers[j] # <<>>


\* the loops.forEach callback is about to run on a loop
AtLoopStart ==
    /\ slPc = "emit" /\ slEmitPc = "loop"
    /\ slLoopIdx < Len(slLayers[slLayerIdx + 1])

\* the loop the callback is about to run on, and its first point
LoopAtStart == slLayers[slLayerIdx + 1][slLoopIdx + 1]

\* the X,Y distance from currentPos to p exceeds 0.05 mm
FartherThanTravelMin(p) ==
    (p.x - slCurrentPos.x) * (p.x - slCurrentPos.x)
      + (p.y - slCurrentPos.y) * (p.y - slCurrentPos.y) > 50 * 50

\* the number of loops of all layers
LoopCount == Cardinality(UNION { {k} \X (1..Len(slLayers[k])) : k \in 1..Len(slLayers) })

\* C22: the emission starts with the tool at X = 0, Y = 0, and the step on a
\* loop, up to its first extruding move, appends a G0 line to the loop's first
\* point at the travel speed, appends one visualization point with that X and Y
\* and sets currentPos to that X and Y exactly when the X,Y distance from
\* currentPos to that point exceeds 0.05 mm; otherwise gcodeLines, visualPath
\* and currentPos are unchanged.
C22_TravelIffFarther ==
    /\ []((slPc = "emit" /\ slLayerIdx = 0 /\ slEmitPc = "layer")
            => (slCurrentPos.x = 0 /\ slCurrentPos.y = 0))
    /\ [][ AtLoopStart =>
             LET start == LoopAtStart[1]
             IN  IF FartherThanTravelMin(start)
                   THEN /\ Len(slLines') = Len(slLines) + 1
                        /\ LET l == slLines'[Len(slLines')]
                           IN  /\ l.cmd = "G0" /\ DOMAIN l = {"cmd", "X", "Y", "F"}
                               /\ l.X = start.x /\ l.Y = start.y
                               /\ l.F = slSettings.travelSpeed
                        /\ SubSeq(slLines', 1, Len(slLines)) = slLines
                        /\ Len(slVisualPath') = Len(slVisualPath) + 1
                        /\ slVisualPath'[Len(slVisualPath')].x = start.x
                        /\ slVisualPath'[Len(slVisualPath')].y = start.y
                        /\ SubSeq(slVisualPath', 1, Len(slVisualPath)) = slVisualPath
                        /\ slCurrentPos'.x = start.x /\ slCurrentPos'.y = start.y
                   ELSE /\ slLines' = slLines
                        /\ slVisualPath' = slVisualPath
                        /\ slCurrentPos' = slCurrentPos ]_vars

\* a finished run with travel moves to some loops and none to others
C22_Witness ==
    /\ slPc = "done"
    /\ Len(SelectSeq(slLines, IsTravel)) >= 1
    /\ Len(SelectSeq(slLines, IsTravel)) < LoopCount


\* the X,Y the tool is at before the i-th of the G0 and G1 X/Y/E lines: the
\* X,Y of the move before it, (0, 0) before the first
XYBeforeMove(i) ==
    IF i = 1 THEN [x |-> 0, y |-> 0]
    ELSE [x |-> slLines[MoveLineIdx[i - 1]].X, y |-> slLines[MoveLineIdx[i - 1]].Y]

\* the X,Y distance of the i-th move if it is an extruding move, else 0
ExtrudedDist ==
    [ i \in 1..Len(MoveLineIdx) |->
        LET l == slLines[MoveLineIdx[i]]
        IN  IF IsExtrude(l)
              THEN Hypot(l.X - XYBeforeMove(i).x, l.Y - XYBeforeMove(i).y)
              ELSE 0 ]

\* the sum of f over lo..hi
RECURSIVE SumOver(_, _, _)
SumOver(f, lo, hi) ==
    IF lo > hi THEN 0
    ELSE IF lo = hi THEN f[lo]
    ELSE LET mid == (lo + hi) \div 2
         IN  SumOver(f, lo, mid) + SumOver(f, mid + 1, hi)

\* the E values of the extruding moves, in 0.00001 mm, in order
ExtrudeEs == [ i \in 1..Len(SelectSeq(slLines, IsExtrude)) |->
                 SelectSeq(slLines, IsExtrude)[i].E ]

\* C23 as stated: each E value, and the returned totalFilament, equal
\* extrusionPerMM times the summed X,Y distance of the extruding moves so far.
\* (E is in 0.00001 mm, totalFilament in 0.0000001 mm.)
C23_EIsTotalFilament ==
    slPc = "done" =>
        LET d == ExtrudedDist
            e == ExtrusionPerMM(slSettings)
        IN  /\ \A i \in 1..Len(d) :
                  IsExtrude(slLines[MoveLineIdx[i]]) =>
                      slLines[MoveLineIdx[i]].E * 100 = e * SumOver(d, 1, i)
            /\ slTotalFilament =
                  IF Len(ExtrudeEs) = 0 THEN 0 ELSE ExtrudeEs[Len(ExtrudeEs)] * 100

\* C23, amended: each E value is extrusionPerMM times the summed X,Y distance
\* of the extruding moves so far, rounded to 5 decimals; the returned
\* totalFilament is that product for all extruding moves, unrounded, so the
\* last E value is totalFilament rounded to 5 decimals (and totalFilament is 0
\* when there is no extruding move).
C23_EIsRoundedTotalFilament ==
    slPc = "done" =>
        LET d == ExtrudedDist
            e == ExtrusionPerMM(slSettings)
        IN  /\ \A i \in 1..Len(d) :
                  IsExtrude(slLines[MoveLineIdx[i]]) =>
                      slLines[MoveLineIdx[i]].E = RoundDiv(e * SumOver(d, 1, i), 100)
            /\ slTotalFilament = e * SumOver(d, 1, Len(d))
            /\ IF Len(ExtrudeEs) = 0 THEN slTotalFilament = 0
               ELSE ExtrudeEs[Len(ExtrudeEs)] = RoundDiv(slTotalFilament, 100)

\* a finished run with extruding moves in several layers whose totalFilament
\* has digits after the fifth decimal
C23_Witness ==
    /\ slPc = "done"
    /\ Len(ExtrudeEs) >= 6
    /\ Len(ZMoves) >= 2
    /\ slTotalFilament % 100 # 0
    /\ ExtrudeEs[1] < ExtrudeEs[Len(ExtrudeEs)]


\* the line a step of the emission appends last (a comment when it appends none)
LineAppended ==
    IF Len(slLines') > Len(slLines) THEN slLines'[Len(slLines')]
    ELSE [cmd |-> "; none"]

\* the X,Y distance from currentPos to the X,Y of line l
XYDistTo(l) == Hypot(l.X - slCurrentPos.x, l.Y - slCurrentPos.y)

\* C24 as stated: the time of every move, Z moves included, is (d / feedrate)
\* * 60 with d the distance over the move's X,Y deltas, which are 0 for a Z move.
C24_TimeFromXYOnly ==
    [][ slPc = "emit" =>
          LET l == LineAppended
          IN  slTotalTime' - slTotalTime =
                IF IsZMove(l) THEN MoveTime(Hypot(0, 0), slSettings.travelSpeed)
                ELSE IF IsTravel(l) THEN MoveTime(XYDistTo(l), slSettings.travelSpeed)
                ELSE IF IsExtrude(l) THEN MoveTime(XYDistTo(l), slSettings.printSpeed)
                ELSE 0 ]_vars

\* C24, amended: every step of the emission raises totalTime by (d / feedrate)
\* * 60, where for a Z move d is |layerZ - currentPos.z| and the feedrate is
\* travelSpeed, for a travel move d is the X,Y distance from currentPos and the
\* feedrate is travelSpeed, for an extruding move d is the X,Y distance from
\* currentPos and the feedrate is printSpeed; no other step changes totalTime.
C24_TimeFromZOrXY ==
    [][ slPc = "emit" =>
          LET l == LineAppended
          IN  slTotalTime' - slTotalTime =
                IF IsZMove(l)
                  THEN MoveTime(Abs(l.Z - slCurrentPos.z), slSettings.travelSpeed)
                ELSE IF IsTravel(l) THEN MoveTime(XYDistTo(l), slSettings.travelSpeed)
                ELSE IF IsExtrude(l) THEN MoveTime(XYDistTo(l), slSettings.printSpeed)
                ELSE 0 ]_vars

\* a finished run with Z moves, travel moves and extruding moves, all timed
C24_Witness ==
    /\ slPc = "done"
    /\ Len(ZMoves) >= 2
    /\ ZMoves[1].Z # 0
    /\ Len(SelectSeq(slLines, IsTravel)) >= 1
    /\ Len(SelectSeq(slLines, IsExtrude)) >= 3
    /\ slTotalTime > MoveTime(Abs(ZMoves[Len(ZMoves)].Z), slSettings.travelSpeed)


-----------------------------------------------------------------------------
(* Properties of chainSegments (SpecChainLive) *)

\* the number of points of all the loops built
PointsBuilt == Cardinality(UNION { {i} \X (1..Len(chBuilt[i])) : i \in 1..Len(chBuilt) })

\* pool after the step is pool before it without its element idx
PoolLost(idx) ==
    /\ Len(chPool') = Len(chPool) - 1
    /\ \A i \in 1..Len(chPool') : chPool'[i] = IF i < idx THEN chPool[i] ELSE chPool[i + 1]

\* C25: chainSegments returns on every input; the argument array is never
\* changed; a step that starts a loop or extends it takes exactly one segment
\* out of the pool, one whose endpoint is the point the loop gained, and no
\* other step changes the pool, which is empty at the return; so whenever a
\* loop has been finished the points of all loops built, kept or not, number
\* the segments taken from the pool plus the loops built.
C25_ChainConsumesEachSegmentOnce ==
    /\ <>(chPc = "returned")
    /\ [](chPc = "returned" => chPool = <<>>)
    /\ [](chPc \in {"chaining", "returned"} =>
            PointsBuilt = (Len(chSegments) - Len(chPool)) + Len(chBuilt))
    /\ [][ /\ chSegments' = chSegments
           /\ IF chPc' = "growing"
                THEN \E idx \in 1..Len(chPool) :
                        /\ PoolLost(idx)
                        /\ chLoop'[Len(chLoop')] \in {chPool[idx].start, chPool[idx].end}
                        /\ Len(chLoop') = IF chPc = "chaining" THEN 2 ELSE Len(chLoop) + 1
                ELSE chPool' = chPool /\ Len(chLoop') = Len(chLoop) ]_vars

\* a finished call on 3 segments that built a loop it kept and one it dropped
C25_Witness ==
    /\ chPc = "returned"
    /\ Len(chSegments) = 3
    /\ Len(chBuilt) = 2
    /\ Len(chLoops) = 1
    /\ PointsBuilt = 5


-----------------------------------------------------------------------------
(* Properties of the layer loop of sliceMesh (SpecLoop) *)

\* the first plane is not above the mesh: minZ + 0.2 <= maxZ
SlHasRoom == AddF(slMinZ, FirstLayerLift) <= slMaxZ

\* the layer loop is running or over (minZ and maxZ are known)
SlInLoop == slPc \in {"slicing", "emit"}

\* C26: the layer loop is left, and the emission begun, in every run with
\* layerHeight > 0 or minZ + 0.2 > maxZ; in a run with minZ + 0.2 <= maxZ
\* (which takes a mesh with a triangle) and layerHeight <= 0 it is never left:
\* z never rises above minZ + 0.2, so z <= maxZ stays true.
C26_LayerLoopEndsIffItSteps ==
    /\ []((SlInLoop /\ (slSettings.layerHeight > 0 \/ ~SlHasRoom))
            => <>(slPc = "emit"))
    /\ []((SlInLoop /\ slSettings.layerHeight <= 0 /\ SlHasRoom)
            => /\ slPc = "slicing"
               /\ Len(slMesh) > 0
               /\ slZ <= AddF(slMinZ, FirstLayerLift)
               /\ LayerLoopRuns(slZ, slMaxZ))

\* a run with a layer height below 0 still in its layer loop after 10
\* layers, its plane under the mesh
C26_Witness ==
    /\ slPc = "slicing"
    /\ slSettings.layerHeight < 0
    /\ SlHasRoom
    /\ Len(slLayers) >= 10
    /\ slZ < slMinZ


-----------------------------------------------------------------------------
(* Properties of intersectTriangleZ (SpecIntersect), continued *)

\* the calls of intersectEdge made by the call that has returned
IxCalls == IntersectEdgeCalls(ixTri, ixZ)

\* v lies between a and b
Between(v, a, b) == Min2(a, b) <= v /\ v <= Max2(a, b)

\* C27: each call intersectEdge(p1, p2) made by intersectTriangleZ has one
\* argument with Z >= z and the other with Z < z, both vertices of the
\* triangle; so p2.z - p1.z is not 0 and t = (z - p1.z) / (p2.z - p1.z) lies in
\* [0, 1]; and the point it returns is finite and lies on the edge p1-p2: at
\* height z, between the two vertices, on the line through them.  A segment
\* is returned exactly when two calls are made.
C27_EdgeCallsCrossThePlane ==
    ixPc = "returned" =>
        /\ Len(IxCalls) = IF HasSegment(ixResult) THEN 2 ELSE 0
        /\ \A c \in 1..Len(IxCalls) :
              LET p1 == IxCalls[c][1]
                  p2 == IxCalls[c][2]
                  q == IF c = 1 THEN ixResult.start ELSE ixResult.end
                  num == ixZ - p1.z
                  den == p2.z - p1.z
              IN  /\ {p1, p2} \subseteq {ixTri.p1, ixTri.p2, ixTri.p3}
                  /\ (p1.z >= ixZ /\ p2.z < ixZ) \/ (p2.z >= ixZ /\ p1.z < ixZ)
                  /\ den # 0
                  /\ num * den >= 0 /\ Abs(num) <= Abs(den)
                  /\ IxFinitePoint(q)
                  /\ Between(q.x, p1.x, p2.x) /\ Between(q.y, p1.y, p2.y)
                  /\ OnEdgeAt(q, p1, p2, ixZ)

\* a triangle with one vertex in the plane, one above and one below: one call
\* has t = 1 (it returns the vertex in the plane), the other 0 < t < 1
C27_Witness ==
    /\ ixPc = "returned"
    /\ HasSegment(ixResult)
    /\ Len(IxOnPlane) = 1
    /\ \E i \in 1..3 : IxVerts[i].z < ixZ
    /\ \E i \in 1..3 : IxVerts[i].z > ixZ
    /\ \E c \in 1..2 : IxCalls[c][2].z = ixZ
    /\ \E c \in 1..2 : IxCalls[c][1].z < ixZ /\ IxCalls[c][2].z > ixZ
    /\ ixResult.start # ixResult.end


-----------------------------------------------------------------------------
(* Properties of chainSegments on an open polyline (SpecPolyline) *)

\* the number of segments of the polyline, and its points from one end to the other
PolyLen == Len(chSegments)
PolyChain == [i \in 1..(PolyLen + 1) |-> PolyPoint(i - 1)]
Reversed(q) == [i \in 1..Len(q) |-> q[Len(q) + 1 - i]]

\* the seed, the last element of the pool, is the segment at an end of the
\* polyline and starts at that end
SeedStartsAtAnEnd ==
    chSegments[PolyLen].start \in {PolyPoint(0), PolyPoint(PolyLen)}

\* the seed is one of the two segments at the ends of the polyline
SeedAtAnEnd ==
    \E forward \in BOOLEAN :
        chSegments[PolyLen] \in {PolySegment(1, forward), PolySegment(PolyLen, forward)}

\* segment seg has an endpoint within EPSILON of p (2D)
Meets(seg, p) == Near(seg.start, p, EPSILON) \/ Near(seg.end, p, EPSILON)

\* C28: a loop is extended at its tail only: a step that extends it keeps the
\* points it had, first point included, and takes a segment that meets its
\* tail; and when growth stops every pool segment, those that meet the first
\* point included, stays in the pool.  So for an open polyline of 3 or more
\* segments the whole polyline is returned as one chain only when the seed
\* (the last pool element) is one of its two end segments (exactly when the
\* seed also starts at that end), and with any other seed several chains are
\* built and none of those returned has all the points.
C28_ChainGrowsAtTailOnly ==
    /\ [][ /\ (chPc = "growing" /\ chPc' = "growing") =>
                /\ SubSeq(chLoop', 1, Len(chLoop)) = chLoop
                /\ \E idx \in 1..Len(chPool) :
                      /\ PoolLost(idx)
                      /\ Meets(chPool[idx], chLoop[Len(chLoop)])
           /\ (chPc = "growing" /\ chPc' = "chaining") =>
                /\ chPool' = chPool
                /\ \A idx \in 1..Len(chPool) : ~Meets(chPool[idx], chLoop[Len(chLoop)]) ]_vars
    /\ [](chPc = "returned" =>
            /\ (chLoops \in {<<PolyChain>>, <<Reversed(PolyChain)>>}) <=> SeedStartsAtAnEnd
            /\ SeedStartsAtAnEnd => SeedAtAnEnd
            /\ ~SeedStartsAtAnEnd =>
                  /\ Len(chBuilt) >= 2
                  /\ \A i \in 1..Len(chLoops) : Len(chLoops[i]) < PolyLen + 1)

\* a finished call whose seed was in the middle of a polyline of 4 segments:
\* two chains of 3 points returned, the segments on the head's side left for
\* the second
C28_Witness ==
    /\ chPc = "returned"
    /\ PolyLen = 4
    /\ ~SeedAtAnEnd
    /\ Len(chLoops) = 2
    /\ Len(chLoops[1]) = 3 /\ Len(chLoops[2]) = 3
    /\ \E i \in 1..3 : Meets(chSegments[i], chLoops[1][1])

-----------------------------------------------------------------------------
(* C29 *)

\* the E values of the parsed lines, in file order
GcodeEValues ==
    LET RECURSIVE EsFrom(_)
        EsFrom(i) ==
            IF i > Len(gcLines) THEN <<>>
            ELSE LET ps == SelectSeq(gcLines[i].parts, LAMBDA part : part[1] = "E")
                 IN  [k \in 1..Len(ps) |-> ps[k][2]] \o EsFrom(i + 1)
    IN  EsFrom(1)

\* only G0 / G1 lines, and E never decreasing from 0
MovesWithRisingE ==
    /\ \A i \in 1..Len(gcLines) : IsMoveWord(gcLines[i].word)
    /\ GcodeEValues # <<>>
    /\ GcodeEValues[1] >= 0
    /\ \A k \in 1..(Len(GcodeEValues) - 1) : GcodeEValues[k] <= GcodeEValues[k + 1]

\* C29: for G0 / G1 lines in absolute extruder mode whose E values never
\* decrease from 0, the totalFilament parseGCodeFile returns is the last E
\* value, whether or not the lines with an E also move.
C29_TotalFilamentIsLastE ==
    (gcPc = "returned" /\ MovesWithRisingE)
        => gcTotalFilament = GcodeEValues[Len(GcodeEValues)]

-----------------------------------------------------------------------------
(* C30 *)

\* C30: while isPlaying with a loaded path and a positive playbackSpeed, a
\* tick of the playback timer advances playbackIndex by playbackSpeed, and once
\* that would reach original.length - 1 it sets the index to original.length - 1
\* and stops playing; the index a tick leaves is never below 0 and never above
\* original.length - 1.
C30_TickKeepsIndexInPath ==
    [][ (Tick /\ playbackSpeed > 0)
          => /\ playbackIndex' >= 0
             /\ playbackIndex' <= simPath - 1
             /\ IF playbackIndex + playbackSpeed >= simPath - 1
                  THEN playbackIndex' = simPath - 1 /\ ~isPlaying'
                  ELSE playbackIndex' = playbackIndex + playbackSpeed /\ isPlaying' ]_vars

=============================================================================
